---- MODULE Spec2Model ----
(***************************************************************************)
(* Price matching and quotation totals of the PricingApp repository.       *)
(*                                                                         *)
(* Server side: NewItineraryAnalyzer.matchPrices scores every detected     *)
(* service against the active rows of the prices table and binds the best  *)
(* row when its score reaches 60; compileAnalysis rolls the matches up     *)
(* into per-person and per-group totals.                                   *)
(* Client side: NewTourPage.calculatePricing rolls a parsed itinerary up   *)
(* into daily and grand totals under a PricingConfig.                      *)
(*                                                                         *)
(* Strings are TLA+ strings; null / undefined text columns are the empty   *)
(* string (every use in the modelled code tests them with Boolean(x), for  *)
(* which null, undefined and "" agree).  Money is an integer number of     *)
(* currency units; quotients and rates are exact fractions.                *)
(***************************************************************************)
EXTENDS Integers, Sequences, FiniteSets, TLC

VARIABLES
    prices,         \* the prices table, in the order a select returns it
    pc,             \* position of the traced request
    services,       \* DetectedService[] handed to matchPrices
    matches,        \* PriceMatch[] returned by matchPrices
    numPeople,      \* compileAnalysis argument
    analysis,       \* AnalysisResult returned by compileAnalysis
    error,          \* message of the Error analyzeItinerary threw, "" if none
    completion,     \* what the chat completion of extractServices came back with
    analysisResult, \* NewTourPage state: parsed itinerary, or NoResult
    currentStep,    \* NewTourPage state: 'analyze' | 'review' | 'pricing'
    pricingConfig,  \* NewTourPage state
    pricingTotals,  \* NewTourPage state: PricingTotals, or NoTotals
    app,            \* EgyptItineraryApp state: currentStep, parsedItinerary,
                    \* pricingConfig, pricingTotals
    parsedItinerary, \* AIItineraryParser: the itinerary object passed along
    priceMatches,   \* AIItineraryParser: ServiceMatch[] of analyzeAndMatchServices
    missingPrices,  \* AIItineraryParser: missingPrices of analyzeAndMatchServices
    lastDelete,     \* DELETE /api/prices/:id: the id and storage.deletePrice's result
    csvUpload,      \* the csv_uploads row of the traced upload
    requests        \* POST /api/csv-uploads/:id/process: one record per request

analyzerVars == <<services, matches, numPeople, analysis, error, completion>>
pageVars == <<analysisResult, currentStep, pricingConfig, pricingTotals>>
aiVars == <<parsedItinerary, priceMatches, missingPrices>>
csvVars == <<csvUpload, requests>>

vars == <<prices, pc, analyzerVars, pageVars, app, aiVars, lastDelete, csvVars>>

(***************************************************************************)
(* Bounds                                                                  *)
(***************************************************************************)
MaxCatalog == 2
MaxServices == 2
MaxPeople == 2

(***************************************************************************)
(* String helpers                                                          *)
(***************************************************************************)
UpperChars == <<"A","B","C","D","E","F","G","H","I","J","K","L","M",
                "N","O","P","Q","R","S","T","U","V","W","X","Y","Z">>
LowerChars == <<"a","b","c","d","e","f","g","h","i","j","k","l","m",
                "n","o","p","q","r","s","t","u","v","w","x","y","z">>

ToLowerChar(c) ==
    IF \E i \in 1..26 : UpperChars[i] = c
    THEN LowerChars[CHOOSE i \in 1..26 : UpperChars[i] = c]
    ELSE c

RECURSIVE ToLowerCase(_)
ToLowerCase(s) ==
    IF Len(s) = 0 THEN ""
    ELSE ToLowerChar(SubSeq(s, 1, 1)) \o ToLowerCase(SubSeq(s, 2, Len(s)))

\* String.prototype.includes
Includes(text, term) ==
    \E i \in 0..(Len(text) - Len(term)) : SubSeq(text, i + 1, i + Len(term)) = term

\* Array.prototype.filter(Boolean) over strings: drops null, undefined and ""
FilterBoolean(seq) == SelectSeq(seq, LAMBDA x : x # "")

\* Array.prototype.join(' ')
RECURSIVE JoinSpace(_)
JoinSpace(seq) ==
    IF Len(seq) = 0 THEN ""
    ELSE IF Len(seq) = 1 THEN seq[1]
    ELSE seq[1] \o " " \o JoinSpace(Tail(seq))

(***************************************************************************)
(* Data: rows of the prices table and detected services                    *)
(***************************************************************************)
CostBases == {"per_person", "per_group", "per_night", "per_day", "flat_rate"}

ServiceCategories == {"transportation", "guide_personnel", "entrance_fees",
                      "accommodation", "meals", "optional_extras", "other"}

Price(id, name, cat, route, basis, price, cur, vehicle, loc, active) ==
    [id |-> id, service_name |-> name, category |-> cat, route_name |-> route,
     cost_basis |-> basis, unit_price |-> price, currency |-> cur,
     vehicle_type |-> vehicle, location |-> loc, is_active |-> active]

CairoAirportPickup ==
    Price("p1", "Cairo Airport Pickup", "transport", "", "per_group", 20, "EUR", "", "Cairo", TRUE)
CairoAirportPickupAccommodation ==
    Price("p2", "Cairo Airport Pickup", "accommodation", "", "per_group", 20, "EUR", "", "Cairo", TRUE)
CairoAirportPickupSedan ==
    Price("p3", "Airport Pickup", "Transport", "Cairo Airport Pickup", "per_group", 30, "USD", "Sedan", "Cairo", TRUE)
CairoAirportPickupRetired ==
    Price("p4", "Cairo Airport Pickup", "transportation", "", "per_group", 99, "EUR", "", "Cairo", FALSE)
CairoHotel ==
    Price("p5", "Hotel", "accommodation", "", "per_night", 80, "EUR", "", "Cairo", TRUE)
PyramidsTicket ==
    Price("p6", "Pyramids entrance ticket", "Entrance Fee", "", "per_person", 15, "USD", "", "Giza", TRUE)
CamelRide ==
    Price("p7", "Camel ride", "other", "", "flat_rate", 10, "EUR", "", "Giza", TRUE)
LuxorGuide ==
    Price("p8", "Tour guide", "guide", "", "per_day", 40, "EUR", "", "Luxor", TRUE)

PriceUniverse == {CairoAirportPickup, CairoAirportPickupAccommodation,
                  CairoAirportPickupSedan, CairoAirportPickupRetired,
                  CairoHotel, PyramidsTicket, CamelRide, LuxorGuide}

\* a row as the CSV import writes it for a base_cost of "." (unit_price 0)
CairoAirportPickupNoCost ==
    Price("p9", "Cairo Airport Pickup", "transport", "", "per_group", 0, "EUR", "", "Cairo", TRUE)

HotelLunch ==
    Price("p10", "Lunch", "meals", "", "per_person", 12, "EUR", "", "Cairo", TRUE)

ImportedRows == {CairoAirportPickupNoCost, CairoAirportPickupSedan, CamelRide, HotelLunch}

Service(day, cat, desc, qty, basis, loc) ==
    [day |-> day, category |-> cat, description |-> desc, quantity |-> qty,
     cost_basis |-> basis, location |-> loc]

AirportPickup == Service(1, "transportation", "Airport pickup", 1, "per_group", "Cairo")
HotelStay     == Service(1, "accommodation", "Hotel", 2, "per_night", "cairo")
PyramidsEntry == Service(2, "entrance_fees", "Pyramids entrance", 3, "per_person", "")
CamelRideOpt  == Service(2, "other", "Camel ride", 1, "flat_rate", "Giza")
GuideDay      == Service(2, "guide_personnel", "Tour guide", 2, "per_day", "")

ServiceUniverse == {AirportPickup, HotelStay, PyramidsEntry, CamelRideOpt, GuideDay}

\* services of category 'other' and services without a location
CamelRidePerPerson == Service(2, "other", "Camel ride", 1, "per_person", "Giza")
CamelRideNowhere   == Service(2, "other", "Camel ride", 1, "flat_rate", "")
LunchStop          == Service(1, "meals", "Lunch", 1, "per_person", "")

ProbeServices == {AirportPickup, CamelRideOpt, CamelRidePerPerson, CamelRideNowhere,
                  LunchStop}

\* Sequences over S of length at most n
SeqsUpTo(S, n) == UNION {[1..k -> S] : k \in 0..n}

\* A table holds each row once (id is the primary key)
Catalogs ==
    {c \in SeqsUpTo(PriceUniverse, MaxCatalog) :
        \A i, j \in 1..Len(c) : i # j => c[i] # c[j]}

ServiceLists == SeqsUpTo(ServiceUniverse, MaxServices)

\* a service as the extractor may return it: nothing checks the JSON, so the
\* quantity can be any number
CancelledPickup == Service(1, "transportation", "Airport pickup", -1, "per_group", "Cairo")

ExtractedServices == {AirportPickup, PyramidsEntry, CancelledPickup}

ExtractedLists == SeqsUpTo(ExtractedServices, MaxServices)

\* the outcomes of the chat completion call: the call rejects, the content
\* is not JSON, the JSON is an object without a services array, an array of
\* services, or an object holding a services array
NoCompletion == [kind |-> "none"]

Completions ==
    {[kind |-> "rejected"], [kind |-> "text"], [kind |-> "object"]}
      \cup {[kind |-> k, services |-> l] : k \in {"array", "services"}, l \in ExtractedLists}

(***************************************************************************)
(* storage.getPrices                                                       *)
(***************************************************************************)
\* getPrices({ isActive }): the rows whose is_active equals the filter, in
\* table order (no other filter is passed by the analyzer)
\* variant: the is_active condition left out of the query
getPricesUnfiltered(table, isActive) == table

getPrices(table, isActive) == SelectSeq(table, LAMBDA p : p.is_active = isActive)

\* getPrices() and getPrices({}): without an isActive filter the query
\* defaults to the active rows
getPricesNoFilter(table) == getPrices(table, TRUE)

\* getPrice(id): the row with that id, or undefined
NoPrice == [kind |-> "undefined"]

getPrice(table, id) ==
    IF \E k \in 1..Len(table) : table[k].id = id
    THEN table[CHOOSE k \in 1..Len(table) : table[k].id = id]
    ELSE NoPrice

\* variant: the row removed from the table
deletePriceHard(table, id) ==
    [table |-> SelectSeq(table, LAMBDA p : p.id # id),
     success |-> \E k \in 1..Len(table) : table[k].id = id]

\* deletePrice(id): is_active set to false where the id matches; the result
\* is rowCount > 0
deletePrice(table, id) ==
    [table |-> [k \in 1..Len(table) |->
                  IF table[k].id = id THEN [table[k] EXCEPT !.is_active = FALSE]
                  ELSE table[k]],
     success |-> \E k \in 1..Len(table) : table[k].id = id]

\* updatePrice(id, { is_active }): the column set where the id matches
updatePrice(table, id, isActive) ==
    [k \in 1..Len(table) |->
        IF table[k].id = id THEN [table[k] EXCEPT !.is_active = isActive]
        ELSE table[k]]

(***************************************************************************)
(* NewItineraryAnalyzer.matchPrices                                        *)
(***************************************************************************)
maxScore == 100

\* variant: 'other' given a keyword of its own
categoryMapOtherKeyword(serviceCategory) ==
    CASE serviceCategory = "transportation" ->
            <<"transport", "transfer", "car", "vehicle", "train", "flight", "boat">>
      [] serviceCategory = "guide_personnel" ->
            <<"guide", "driver", "personnel", "assistant", "representative">>
      [] serviceCategory = "entrance_fees" ->
            <<"entrance", "ticket", "admission", "fee", "site">>
      [] serviceCategory = "accommodation" ->
            <<"hotel", "accommodation", "resort", "cruise", "stay">>
      [] serviceCategory = "meals" ->
            <<"meal", "lunch", "dinner", "breakfast", "food">>
      [] serviceCategory = "optional_extras" ->
            <<"optional", "extra", "show", "activity", "special">>
      [] OTHER -> <<"other">>

categoryMap(serviceCategory) ==
    CASE serviceCategory = "transportation" ->
            <<"transport", "transfer", "car", "vehicle", "train", "flight", "boat">>
      [] serviceCategory = "guide_personnel" ->
            <<"guide", "driver", "personnel", "assistant", "representative">>
      [] serviceCategory = "entrance_fees" ->
            <<"entrance", "ticket", "admission", "fee", "site">>
      [] serviceCategory = "accommodation" ->
            <<"hotel", "accommodation", "resort", "cruise", "stay">>
      [] serviceCategory = "meals" ->
            <<"meal", "lunch", "dinner", "breakfast", "food">>
      [] serviceCategory = "optional_extras" ->
            <<"optional", "extra", "show", "activity", "special">>
      [] OTHER -> <<>>

categoryMatches(serviceCategory, dbCategory) ==
    IF dbCategory = "" THEN FALSE
    ELSE LET keywords == categoryMap(serviceCategory)
             dbCat == ToLowerCase(dbCategory)
         IN \E k \in 1..Len(keywords) : Includes(dbCat, keywords[k])

searchTerms(service) ==
    FilterBoolean(<<ToLowerCase(service.description), service.category, service.location>>)

\* variant: the row text compared without lower-casing it
dbTextCased(dbPrice) ==
    JoinSpace(FilterBoolean(
        <<dbPrice.service_name, dbPrice.category, dbPrice.route_name,
          dbPrice.location, dbPrice.vehicle_type>>))

dbTextOf(dbPrice) ==
    ToLowerCase(JoinSpace(FilterBoolean(
        <<dbPrice.service_name, dbPrice.category, dbPrice.route_name,
          dbPrice.location, dbPrice.vehicle_type>>)))

Min(a, b) == IF a < b THEN a ELSE b

textMatches(service, dbPrice) ==
    LET terms == searchTerms(service)
        dbText == dbTextOf(dbPrice)
    IN Cardinality({t \in 1..Len(terms) : Includes(dbText, ToLowerCase(terms[t]))})

textPoints(service, dbPrice) == Min(30, textMatches(service, dbPrice) * 10)

\* variant: the category weight mistyped
categoryPointsHeavy(service, dbPrice) ==
    IF categoryMatches(service.category, dbPrice.category) THEN 50 ELSE 0

categoryPoints(service, dbPrice) ==
    IF categoryMatches(service.category, dbPrice.category) THEN 40 ELSE 0

locationPoints(service, dbPrice) ==
    IF /\ service.location # ""
       /\ dbPrice.location # ""
       /\ Includes(ToLowerCase(dbPrice.location), ToLowerCase(service.location))
    THEN 20 ELSE 0

costBasisPoints(service, dbPrice) ==
    IF service.cost_basis = dbPrice.cost_basis THEN 10 ELSE 0

\* the body of the inner loop: the score of one row for one service
score(service, dbPrice) ==
    Min(textPoints(service, dbPrice) + categoryPoints(service, dbPrice)
          + locationPoints(service, dbPrice) + costBasisPoints(service, dbPrice),
        maxScore)

\* the parts of score, tabulated once over the services and rows of the model
partsTable ==
    [s \in ServiceUniverse \cup ExtractedServices \cup ProbeServices,
     p \in PriceUniverse \cup ImportedRows |->
        [found |-> textMatches(s, p),
         text |-> textPoints(s, p),
         category |-> categoryPoints(s, p),
         location |-> locationPoints(s, p),
         basis |-> costBasisPoints(s, p)]]

\* score, tabulated once over the services and rows of the model
scoreTable ==
    [s \in ServiceUniverse \cup ExtractedServices \cup ProbeServices,
     p \in PriceUniverse \cup ImportedRows |-> score(s, p)]

\* variant: a later row of equal score replaces the best one (>= for >)
RECURSIVE bestFromLast(_, _, _, _)
bestFromLast(service, allPrices, i, best) ==
    IF i > Len(allPrices) THEN best
    ELSE LET s == scoreTable[service, allPrices[i]]
         IN bestFromLast(service, allPrices, i + 1,
                         IF s >= best.bestScore
                         THEN [bestScore |-> s, bestMatch |-> i]
                         ELSE best)

\* the inner loop over allPrices from row i on, carrying bestScore and the
\* index of bestMatch (0 is null)
RECURSIVE bestFrom(_, _, _, _)
bestFrom(service, allPrices, i, best) ==
    IF i > Len(allPrices) THEN best
    ELSE LET s == scoreTable[service, allPrices[i]]
         IN bestFrom(service, allPrices, i + 1,
                     IF s > best.bestScore
                     THEN [bestScore |-> s, bestMatch |-> i]
                     ELSE best)

findBest(service, allPrices) ==
    bestFrom(service, allPrices, 1, [bestScore |-> 0, bestMatch |-> 0])

\* variant: the 'unknown location' default left out
generateMissingPriceHintRaw(service) ==
    LET category == service.category
        location == service.location
        d == service.description
    IN CASE category = "transportation" ->
              "Add a price for: \"" \o d \o "\" in " \o location
                \o ". Specify vehicle type and passenger capacity if applicable."
         [] category = "guide_personnel" ->
              "Add a price for: \"" \o d \o "\" in " \o location
                \o ". Specify if it's per day or per tour."
         [] category = "entrance_fees" ->
              "Add a price for: \"" \o d \o "\" entrance ticket. Usually priced per person."
         [] category = "accommodation" ->
              "Add a price for: \"" \o d \o "\" in " \o location
                \o ". Specify per night rate and room type."
         [] category = "meals" ->
              "Add a price for: \"" \o d \o "\". Usually priced per person."
         [] category = "optional_extras" ->
              "Add a price for: \"" \o d \o "\" optional activity."
         [] category = "other" ->
              "Add a price for: \"" \o d \o "\" in your database."
         [] OTHER -> "Add pricing data for \"" \o d \o "\""

generateMissingPriceHint(service) ==
    LET category == service.category
        location == IF service.location # "" THEN service.location ELSE "unknown location"
        d == service.description
    IN CASE category = "transportation" ->
              "Add a price for: \"" \o d \o "\" in " \o location
                \o ". Specify vehicle type and passenger capacity if applicable."
         [] category = "guide_personnel" ->
              "Add a price for: \"" \o d \o "\" in " \o location
                \o ". Specify if it's per day or per tour."
         [] category = "entrance_fees" ->
              "Add a price for: \"" \o d \o "\" entrance ticket. Usually priced per person."
         [] category = "accommodation" ->
              "Add a price for: \"" \o d \o "\" in " \o location
                \o ". Specify per night rate and room type."
         [] category = "meals" ->
              "Add a price for: \"" \o d \o "\". Usually priced per person."
         [] category = "optional_extras" ->
              "Add a price for: \"" \o d \o "\" optional activity."
         [] category = "other" ->
              "Add a price for: \"" \o d \o "\" in your database."
         [] OTHER -> "Add pricing data for \"" \o d \o "\""

\* variant: the threshold test written > 60 for >= 60
matchOneStrict(service, allPrices) ==
    LET best == findBest(service, allPrices)
        matched == best.bestScore > 60
    IN IF matched /\ best.bestMatch # 0
       THEN [service |-> service,
             matched |-> TRUE,
             price |-> allPrices[best.bestMatch].unit_price,
             currency |-> allPrices[best.bestMatch].currency,
             confidence |-> best.bestScore,
             database_match |-> allPrices[best.bestMatch]]
       ELSE [service |-> service,
             matched |-> FALSE,
             hint |-> generateMissingPriceHint(service)]

\* variant: the threshold set to 50
matchOneLenient(service, allPrices) ==
    LET best == findBest(service, allPrices)
        matched == best.bestScore >= 50
    IN IF matched /\ best.bestMatch # 0
       THEN [service |-> service,
             matched |-> TRUE,
             price |-> allPrices[best.bestMatch].unit_price,
             currency |-> allPrices[best.bestMatch].currency,
             confidence |-> best.bestScore,
             database_match |-> allPrices[best.bestMatch]]
       ELSE [service |-> service,
             matched |-> FALSE,
             hint |-> generateMissingPriceHint(service)]

\* one iteration of the outer loop: the PriceMatch pushed for one service
matchOne(service, allPrices) ==
    LET best == findBest(service, allPrices)
        matched == best.bestScore >= 60
    IN IF matched /\ best.bestMatch # 0
       THEN [service |-> service,
             matched |-> TRUE,
             price |-> allPrices[best.bestMatch].unit_price,
             currency |-> allPrices[best.bestMatch].currency,
             confidence |-> best.bestScore,
             database_match |-> allPrices[best.bestMatch]]
       ELSE [service |-> service,
             matched |-> FALSE,
             hint |-> generateMissingPriceHint(service)]

\* variant: results unshifted to the front instead of pushed
RECURSIVE matchLoopUnshift(_, _)
matchLoopUnshift(svcs, allPrices) ==
    IF Len(svcs) = 0 THEN <<>>
    ELSE matchLoopUnshift(Tail(svcs), allPrices) \o <<matchOne(Head(svcs), allPrices)>>

\* the outer loop: one PriceMatch pushed per service, in order
RECURSIVE matchLoop(_, _)
matchLoop(svcs, allPrices) ==
    IF Len(svcs) = 0 THEN <<>>
    ELSE <<matchOne(Head(svcs), allPrices)>> \o matchLoop(Tail(svcs), allPrices)

matchPrices(svcs, table) == matchLoop(svcs, getPrices(table, TRUE))

(***************************************************************************)
(* NewItineraryAnalyzer.compileAnalysis                                    *)
(***************************************************************************)
TourDays == 2

\* the value serviceTotal has after the switch on cost_basis
serviceTotalOf(match, n) ==
    LET price == match.price
        quantity == match.service.quantity
        basis == match.service.cost_basis
    IN CASE basis = "per_person" -> price * quantity * n
         [] basis \in {"per_group", "flat_rate"} -> price * quantity
         [] basis \in {"per_night", "per_day"} -> price * quantity
         [] OTHER -> 0

\* what the switch adds to perPersonTotal
perPersonAdd(match) ==
    IF match.service.cost_basis = "per_person"
    THEN match.price * match.service.quantity
    ELSE 0

\* variant: the per_night / per_day case of the switch left out
perGroupAddNoDuration(match) ==
    IF match.service.cost_basis \in {"per_group", "flat_rate"}
    THEN match.price * match.service.quantity
    ELSE 0

\* what the switch adds to perGroupTotal
perGroupAdd(match) ==
    IF match.service.cost_basis \in {"per_group", "flat_rate", "per_night", "per_day"}
    THEN match.price * match.service.quantity
    ELSE 0

\* categoryTotals (a Map, kept in insertion order) after adding serviceTotal
trackCategory(categoryTotals, category, serviceTotal) ==
    IF \E k \in 1..Len(categoryTotals) : categoryTotals[k].category = category
    THEN [k \in 1..Len(categoryTotals) |->
            IF categoryTotals[k].category = category
            THEN [category |-> category,
                  total |-> categoryTotals[k].total + serviceTotal,
                  count |-> categoryTotals[k].count + 1]
            ELSE categoryTotals[k]]
    ELSE Append(categoryTotals,
                [category |-> category, total |-> serviceTotal, count |-> 1])

\* the loop over servicesWithPrices from element i on
RECURSIVE totalsFrom(_, _, _, _)
totalsFrom(servicesWithPrices, n, i, acc) ==
    IF i > Len(servicesWithPrices) THEN acc
    ELSE LET match == servicesWithPrices[i]
         IN IF match.price = 0
            THEN totalsFrom(servicesWithPrices, n, i + 1, acc)
            ELSE totalsFrom(servicesWithPrices, n, i + 1,
                    [perPersonTotal |-> acc.perPersonTotal + perPersonAdd(match),
                     perGroupTotal |-> acc.perGroupTotal + perGroupAdd(match),
                     categoryTotals |->
                        trackCategory(acc.categoryTotals, match.service.category,
                                      serviceTotalOf(match, n))])

\* Array.from(new Set(xs)): first occurrences, in order
RECURSIVE Unique(_)
Unique(xs) ==
    IF Len(xs) = 0 THEN <<>>
    ELSE LET init == Unique(SubSeq(xs, 1, Len(xs) - 1))
             last == xs[Len(xs)]
         IN IF \E k \in 1..Len(init) : init[k] = last THEN init ELSE Append(init, last)

\* the keys of servicesByDay sorted ascending
RECURSIVE SortedDays(_)
SortedDays(days) ==
    IF days = {} THEN <<>>
    ELSE LET d == CHOOSE x \in days : \A y \in days : x <= y
         IN <<d>> \o SortedDays(days \ {d})

\* (with / total * 100).toFixed(0), for total > 0
completionPercent(with, total) == (200 * with + total) \div (2 * total)

recommendationsOf(nWith, nWithout) ==
    (IF nWithout > 0
     THEN <<ToString(nWithout)
              \o " services need pricing data. Review the missing prices section for details.">>
     ELSE <<>>)
    \o (IF nWith > 0
        THEN <<ToString(nWith) \o " services successfully matched with database prices.">>
        ELSE <<>>)
    \o (IF nWith + nWithout > 0 /\ nWith * 100 < 80 * (nWith + nWithout)
        THEN <<"Current pricing completion: "
                 \o ToString(completionPercent(nWith, nWith + nWithout))
                 \o "%. Add missing prices to improve accuracy.">>
        ELSE <<>>)

\* priceMatches.filter(m => m.matched)
servicesWithPricesOf(ms) == SelectSeq(ms, LAMBDA m : m.matched)

\* variant: the unmatched results de-duplicated
servicesWithoutPricesUnique(ms) == Unique(SelectSeq(ms, LAMBDA m : ~m.matched))

\* priceMatches.filter(m => !m.matched)
servicesWithoutPricesOf(ms) == SelectSeq(ms, LAMBDA m : ~m.matched)

compileAnalysis(ms, n, numDays) ==
    LET servicesWithPrices == servicesWithPricesOf(ms)
        servicesWithoutPrices == servicesWithoutPricesOf(ms)
        currency == IF Len(servicesWithPrices) > 0 /\ servicesWithPrices[1].currency # ""
                    THEN servicesWithPrices[1].currency
                    ELSE "EUR"
        t == totalsFrom(servicesWithPrices, n, 1,
                        [perPersonTotal |-> 0, perGroupTotal |-> 0, categoryTotals |-> <<>>])
        dayKeys == SortedDays({ms[k].service.day : k \in 1..Len(ms)})
    IN [summary |->
            [total_days |-> numDays,
             total_people |-> n,
             cities |-> Unique(FilterBoolean([k \in 1..Len(ms) |-> ms[k].service.location])),
             total_services |-> Len(ms),
             services_with_prices |-> Len(servicesWithPrices),
             services_without_prices |-> Len(servicesWithoutPrices)],
        services_by_day |->
            [k \in 1..Len(dayKeys) |->
                LET dayServices == SelectSeq(ms, LAMBDA m : m.service.day = dayKeys[k])
                IN [day |-> dayKeys[k],
                    label |-> "Day " \o ToString(dayKeys[k]),
                    location |-> IF dayServices[1].service.location # ""
                                 THEN dayServices[1].service.location
                                 ELSE "Various locations",
                    services |-> dayServices]],
        pricing |->
            [per_person_total |-> t.perPersonTotal,
             per_group_total |-> t.perGroupTotal + (t.perPersonTotal * n),
             currency |-> currency,
             breakdown_by_category |-> t.categoryTotals],
        missing_prices |->
            [k \in 1..Len(servicesWithoutPrices) |->
                [category |-> servicesWithoutPrices[k].service.category,
                 description |-> servicesWithoutPrices[k].service.description,
                 hint |-> IF servicesWithoutPrices[k].hint # ""
                          THEN servicesWithoutPrices[k].hint
                          ELSE "Add this service to your pricing database"]],
        recommendations |-> recommendationsOf(Len(servicesWithPrices),
                                              Len(servicesWithoutPrices))]

(***************************************************************************)
(* NewItineraryAnalyzer.extractServices and analyzeItinerary               *)
(***************************************************************************)
Return(value) == [threw |-> FALSE, value |-> value]
Throw(message) == [threw |-> TRUE, message |-> message]

\* variant: the check for an empty service list left out
extractServicesUnchecked(response) ==
    CASE response.kind = "rejected" -> Throw("Connection error.")
      [] response.kind = "text" -> Throw("Unexpected token in JSON")
      [] response.kind \in {"array", "services"} -> Return(response.services)
      [] OTHER -> Throw("AI returned unexpected format. Please try again.")

\* extractServices from the point where the completion call settles
extractServices(response) ==
    CASE response.kind = "rejected" -> Throw("Connection error.")
      [] response.kind = "text" -> Throw("Unexpected token in JSON")
      [] response.kind \in {"array", "services"} ->
            IF Len(response.services) = 0
            THEN Throw("No services detected in itinerary. Please provide a more detailed itinerary with specific services, locations, and activities.")
            ELSE Return(response.services)
      [] OTHER -> Throw("AI returned unexpected format. Please try again.")

\* analyzeItinerary(itineraryText, numPeople, numDays) given the completion
\* and the prices table: the analysis returned, or the Error thrown
analyzeItinerary(response, table, n, numDays) ==
    LET detectedServices == extractServices(response)
    IN IF detectedServices.threw
       THEN Throw("Failed to analyze itinerary: " \o detectedServices.message)
       ELSE LET priceMatches0 == matchPrices(detectedServices.value, table)
            IN Return([detectedServices |-> detectedServices.value,
                       priceMatches |-> priceMatches0,
                       analysis |-> compileAnalysis(priceMatches0, n, numDays)])

(***************************************************************************)
(* Exact fractions (JavaScript numbers that are not whole)                 *)
(***************************************************************************)
RECURSIVE GCD(_, _)
GCD(a, b) == IF b = 0 THEN a ELSE GCD(b, a % b)

\* the fraction a / b in lowest terms, for a >= 0 and b > 0
Rat(a, b) == LET g == GCD(a, b) IN [num |-> a \div g, den |-> b \div g]

RatAdd(x, y) == Rat(x.num * y.den + y.num * x.den, x.den * y.den)
RatMul(x, y) == Rat(x.num * y.num, x.den * y.den)
RatInt(k) == Rat(k, 1)

(***************************************************************************)
(* NewTourPage                                                             *)
(***************************************************************************)
NoResult == [kind |-> "null"]
NoTotals == [kind |-> "null"]
NoAnalysis == [kind |-> "null"]
NoUpload == [kind |-> "null"]
NoDelete == [id |-> "", success |-> FALSE]

\* useState<PricingConfig> initial value
DefaultPricingConfig ==
    [currency |-> "EUR", exchange_rate |-> RatInt(1), tax_rate |-> Rat(12, 100),
     markup_rate |-> Rat(20, 100), rounding_increment |-> 50,
     accommodation_mode |-> "per_person", occupancy |-> 2, profile |-> "Base"]

\* a Service of shared/schema.ts; quantity 0 and unitPrice 0 stand for an
\* absent optional field as well (the code tests both with || and &&)
Line(name, quantity, unitPrice, included) ==
    [service |-> name, quantity |-> quantity, unitPrice |-> unitPrice,
     included |-> included]

PrivateCar    == Line("Private car", 1, 50, TRUE)
SiteTicket    == Line("Entrance ticket", 1, 100, TRUE)
Lunch         == Line("Lunch", 0, 12, TRUE)
NightTrain    == Line("Night train", 2, 30, TRUE)
UnpricedGuide == Line("Guide", 1, 0, TRUE)
BalloonRide   == Line("Balloon ride", 1, 90, FALSE)

Day(day, perGroup, perPerson) ==
    [day |-> day, per_group |-> perGroup, per_person |-> perPerson]

DayUniverse ==
    {Day(1, <<PrivateCar>>, <<>>),
     Day(2, <<>>, <<SiteTicket>>),
     Day(3, <<PrivateCar, UnpricedGuide>>, <<NightTrain, Lunch>>),
     Day(4, <<BalloonRide>>, <<Lunch, BalloonRide>>)}

MaxItineraryDays == 2

ItineraryDays ==
    {d \in SeqsUpTo(DayUniverse, MaxItineraryDays) :
        \A i, j \in 1..Len(d) : i < j => d[i].day < d[j].day}

Itineraries ==
    {[overview |-> [num_people |-> n], days |-> d] :
        n \in 1..MaxPeople, d \in ItineraryDays}

lineCounts(service) == service.included /\ service.unitPrice # 0

quantityOr1(service) == IF service.quantity # 0 THEN service.quantity ELSE 1

\* the per-group loop of one day
RECURSIVE perGroupSum(_)
perGroupSum(lines) ==
    IF Len(lines) = 0 THEN 0
    ELSE (IF lineCounts(Head(lines))
          THEN Head(lines).unitPrice * quantityOr1(Head(lines))
          ELSE 0) + perGroupSum(Tail(lines))

\* the per-person loop of one day
RECURSIVE perPersonSum(_, _)
perPersonSum(lines, n) ==
    IF Len(lines) = 0 THEN 0
    ELSE (IF lineCounts(Head(lines))
          THEN Head(lines).unitPrice * quantityOr1(Head(lines)) * n
          ELSE 0) + perPersonSum(Tail(lines), n)

dayTotalOf(day, n) == perGroupSum(day.per_group) + perPersonSum(day.per_person, n)

\* variant: the accumulator started at 1
RECURSIVE SumSeqFrom1(_)
SumSeqFrom1(xs) == IF Len(xs) = 0 THEN 1 ELSE Head(xs) + SumSeqFrom1(Tail(xs))

RECURSIVE SumSeq(_)
SumSeq(xs) == IF Len(xs) = 0 THEN 0 ELSE Head(xs) + SumSeq(Tail(xs))

netPerPersonOf(totalNet, n) == Rat(totalNet, n)

calculatePricing(itinerary, config) ==
    LET n == itinerary.overview.num_people
        days == itinerary.days
        dayTotals == [k \in 1..Len(days) |-> dayTotalOf(days[k], n)]
        totalNet == SumSeq(dayTotals)
        onePlusTax == RatAdd(RatInt(1), config.tax_rate)
        onePlusMarkup == RatAdd(RatInt(1), config.markup_rate)
        netPerPerson == netPerPersonOf(totalNet, n)
        taxAmount == RatMul(netPerPerson, config.tax_rate)
        markupAmount == RatMul(RatAdd(netPerPerson, taxAmount), config.markup_rate)
        sellPerPerson == RatAdd(RatAdd(netPerPerson, taxAmount), markupAmount)
        sellPerGroup == RatMul(sellPerPerson, RatInt(n))
    IN [net_per_person |-> netPerPerson,
        tax_amount |-> taxAmount,
        markup_amount |-> markupAmount,
        sell_per_person |-> sellPerPerson,
        sell_per_group |-> sellPerGroup,
        daily_totals |->
            [k \in 1..Len(days) |->
                [day |-> days[k].day,
                 net_total |-> dayTotals[k],
                 sell_total |-> RatMul(RatMul(RatInt(dayTotals[k]), onePlusTax),
                                       onePlusMarkup)]]]

\* the configs PricingConfigPanel can hand to onUpdate, starting from base:
\* typed tax and markup percentages, the rounding select, the profile select
TaxRates == {Rat(0, 100), Rat(12, 100)}
MarkupRates == {Rat(20, 100), Rat(25, 100)}
RoundingIncrements == {1, 50}
Profiles == {"Base", "+Tickets"}

PricingConfigs(base) ==
    {[base EXCEPT !.tax_rate = t, !.markup_rate = m,
                  !.rounding_increment = r, !.profile = p] :
        t \in TaxRates, m \in MarkupRates, r \in RoundingIncrements, p \in Profiles}

(***************************************************************************)
(* EgyptItineraryApp                                                       *)
(***************************************************************************)
\* useState<PricingConfig> initial value
AppDefaultPricingConfig ==
    [currency |-> "EGP", exchange_rate |-> RatInt(1), tax_rate |-> Rat(12, 100),
     markup_rate |-> Rat(20, 100), rounding_increment |-> 50,
     accommodation_mode |-> "per_person", occupancy |-> 2, profile |-> "Base"]

\* the form input: num_days and num_people
ItineraryInputs ==
    {[num_days |-> d, num_people |-> n] : d \in 1..MaxItineraryDays, n \in 1..MaxPeople}

\* the day pushed for i by generateMockParsedItinerary
mockDay(i, config) ==
    Day(i,
        <<Line(IF i = 1 THEN "Meet & Assist service at airport" ELSE "Day Tour Transfer",
               1, IF i = 1 THEN 150 ELSE 200 + (i * 25), TRUE),
          Line(IF i = 1 THEN "Transfer to hotel from airport" ELSE "Parking Fees",
               1, IF i = 1 THEN 200 ELSE 50, TRUE)>>,
        <<Line("Accommodation at hotels, Dahabiya or Nile Cruise", 1, 120 + (i * 20), TRUE),
          Line("Entrance Fees to attractions", 1, 250, config.profile # "Base")>>)

generateMockParsedItinerary(input, config) ==
    [overview |-> [num_people |-> input.num_people],
     days |-> [i \in 1..input.num_days |-> mockDay(i, config)]]

RECURSIVE RatSum(_)
RatSum(xs) == IF Len(xs) = 0 THEN RatInt(0) ELSE RatAdd(Head(xs), RatSum(Tail(xs)))

\* the per-group loop of one day: each line divided by the number of people
mockPerGroupSum(lines, n) ==
    RatSum([k \in 1..Len(lines) |->
              IF lineCounts(lines[k])
              THEN Rat(lines[k].unitPrice * quantityOr1(lines[k]), n)
              ELSE RatInt(0)])

\* the per-person loop of one day
mockPerPersonSum(lines) ==
    RatSum([k \in 1..Len(lines) |->
              IF lineCounts(lines[k])
              THEN RatInt(lines[k].unitPrice * quantityOr1(lines[k]))
              ELSE RatInt(0)])

dayNetOf(day, n) == RatAdd(mockPerGroupSum(day.per_group, n), mockPerPersonSum(day.per_person))

calculateMockTotals(parsed, config) ==
    LET n == parsed.overview.num_people
        days == parsed.days
        dayNets == [k \in 1..Len(days) |-> dayNetOf(days[k], n)]
        totalNet == RatSum(dayNets)
        taxAmount == RatMul(totalNet, config.tax_rate)
        markupAmount == RatMul(totalNet, config.markup_rate)
        sellPerPerson == RatAdd(RatAdd(totalNet, taxAmount), markupAmount)
        sellPerGroup == RatMul(sellPerPerson, RatInt(n))
    IN [net_per_person |-> totalNet,
        tax_amount |-> taxAmount,
        markup_amount |-> markupAmount,
        sell_per_person |-> sellPerPerson,
        sell_per_group |-> sellPerGroup,
        daily_totals |->
            [k \in 1..Len(days) |->
                [day |-> days[k].day,
                 net_total |-> dayNets[k],
                 sell_total |->
                    RatMul(dayNets[k],
                           RatAdd(RatAdd(RatInt(1), config.tax_rate), config.markup_rate))]]]

stepNavigation == <<"input", "breakdown", "pricing", "export">>

stepIndex(step) == CHOOSE i \in 1..Len(stepNavigation) : stepNavigation[i] = step

canProceedToNext(state) ==
    CASE state.currentStep = "input" -> state.parsedItinerary # NoResult
      [] state.currentStep = "breakdown" -> state.pricingTotals # NoTotals
      [] state.currentStep = "pricing" -> state.pricingTotals # NoTotals
      [] OTHER -> FALSE

InitialApp ==
    [currentStep |-> "input", parsedItinerary |-> NoResult,
     pricingConfig |-> AppDefaultPricingConfig, pricingTotals |-> NoTotals]

(***************************************************************************)
(* What the pricing step renders                                           *)
(***************************************************************************)
\* Math.round of a fraction >= 0: the nearest integer, halves upwards
MathRound(x) == (2 * x.num + x.den) \div (2 * x.den)

\* Number.prototype.toFixed(2): the nearest multiple of 1/100
toFixed2(x) == Rat(MathRound(RatMul(x, RatInt(100))), 100)

\* PricingSummaryPanel.formatCurrency(amount)
formatCurrency(amount, config) ==
    LET rounded ==
            RatInt(MathRound(RatMul(amount, Rat(1, config.rounding_increment)))
                     * config.rounding_increment)
    IN [amount |-> toFixed2(rounded), currency |-> config.currency]

\* the amounts PricingSummaryPanel shows for totals under config
PricingSummaryPanel(totals, config) ==
    [net_per_person |-> formatCurrency(totals.net_per_person, config),
     tax_amount |-> formatCurrency(totals.tax_amount, config),
     markup_amount |-> formatCurrency(totals.markup_amount, config),
     sell_per_person |-> formatCurrency(totals.sell_per_person, config),
     sell_per_group |-> formatCurrency(totals.sell_per_group, config),
     daily_totals |->
        [k \in 1..Len(totals.daily_totals) |->
            [day |-> totals.daily_totals[k].day,
             sell_total |-> formatCurrency(totals.daily_totals[k].sell_total, config)]]]

\* the dayTotal prop the pricing step passes for a day:
\* daily_totals.find(dt => dt.day === day.day)?.sell_total || 0
dayTotalProp(totals, day) ==
    LET found == {k \in 1..Len(totals.daily_totals) : totals.daily_totals[k].day = day.day}
    IN IF found = {} THEN RatInt(0)
       ELSE totals.daily_totals[CHOOSE k \in found : \A j \in found : k <= j].sell_total

\* the "Total:" line of DailyBreakdownCard, rendered when showPricing and
\* dayTotal > 0
DailyBreakdownCard(dayTotal, currency) ==
    IF dayTotal.num > 0
    THEN [shown |-> TRUE, amount |-> toFixed2(dayTotal), currency |-> currency]
    ELSE [shown |-> FALSE]

(***************************************************************************)
(* Specification                                                           *)
(***************************************************************************)
\* no request traced yet: what every specification starts from
InitAnalyzer ==
    /\ pc = "start"
    /\ services = <<>>
    /\ matches = <<>>
    /\ numPeople = 1
    /\ analysis = NoAnalysis
    /\ error = ""
    /\ completion = NoCompletion

InitPage ==
    /\ analysisResult = NoResult
    /\ currentStep = "analyze"
    /\ pricingConfig = DefaultPricingConfig
    /\ pricingTotals = NoTotals

InitApp == app = InitialApp

InitAI ==
    /\ parsedItinerary = NoResult
    /\ priceMatches = <<>>
    /\ missingPrices = <<>>

InitDelete == lastDelete = NoDelete

InitCsv ==
    /\ csvUpload = NoUpload
    /\ requests = <<>>

Init ==
    /\ prices \in Catalogs
    /\ InitAnalyzer
    /\ InitPage
    /\ InitApp
    /\ InitAI
    /\ InitDelete
    /\ InitCsv

\* matchPrices(services) against the table as it stands
MatchPricesOf(lists) ==
    /\ pc = "start"
    /\ \E svcs \in lists :
          /\ services' = svcs
          /\ matches' = matchPrices(svcs, prices)
    /\ pc' = "matched"
    /\ UNCHANGED <<prices, numPeople, analysis, error, completion, pageVars, app,
                   aiVars, lastDelete, csvVars>>

MatchPrices == MatchPricesOf(ServiceLists)

\* compileAnalysis(priceMatches, numPeople, numDays)
CompileAnalysis ==
    /\ pc = "matched"
    /\ \E n \in 1..MaxPeople :
          /\ numPeople' = n
          /\ analysis' = compileAnalysis(matches, n, TourDays)
    /\ pc' = "compiled"
    /\ UNCHANGED <<prices, services, matches, error, completion, pageVars, app,
                   aiVars, lastDelete, csvVars>>

\* NewTourPage.handleAnalysisComplete(result), called by the analyzer form,
\* which is mounted while currentStep is 'analyze'
HandleAnalysisCompleteOf(results) ==
    /\ \/ pc = "start"
       \/ pc = "review" /\ currentStep = "analyze"
    /\ \E itinerary \in results :
          /\ analysisResult' = [parsedItinerary |-> itinerary]
          /\ pricingTotals' = calculatePricing(itinerary, pricingConfig)
    /\ currentStep' = "review"
    /\ pc' = "review"
    /\ UNCHANGED <<prices, analyzerVars, pricingConfig, app, aiVars, lastDelete, csvVars>>

HandleAnalysisComplete == HandleAnalysisCompleteOf(Itineraries)

Next ==
    \/ MatchPrices
    \/ CompileAnalysis
    \/ HandleAnalysisComplete

Spec == Init /\ [][Next]_vars

(***************************************************************************)
(* The analyzer as its caller enters it                                    *)
(***************************************************************************)
\* analyzeItinerary(itineraryText, numPeople, numDays): the completion comes
\* back, and the call returns the analysis or throws
AnalyzeItinerary ==
    /\ pc = "start"
    /\ \E response \in Completions, n \in 0..MaxPeople :
          LET result == analyzeItinerary(response, prices, n, TourDays)
          IN /\ completion' = response
             /\ numPeople' = n
             /\ IF result.threw
                THEN /\ error' = result.message
                     /\ pc' = "failed"
                     /\ UNCHANGED <<services, matches, analysis>>
                ELSE /\ services' = result.value.detectedServices
                     /\ matches' = result.value.priceMatches
                     /\ analysis' = result.value.analysis
                     /\ pc' = "analyzed"
                     /\ UNCHANGED error
    /\ UNCHANGED <<prices, pageVars, app, aiVars, lastDelete, csvVars>>

NextAnalyze == AnalyzeItinerary

SpecAnalyze == Init /\ [][NextAnalyze]_vars

(***************************************************************************)
(* The prices routes beside the matcher                                    *)
(***************************************************************************)
\* the rows the table is drawn from here, and the ids a request may name
\* ("p0" is no row's id)
StoredRows == {CairoAirportPickup, CairoAirportPickupSedan, PyramidsTicket}

StoredCatalogs == {c \in Catalogs : \A k \in 1..Len(c) : c[k] \in StoredRows}

RequestIds == {r.id : r \in StoredRows} \cup {"p0"}

\* DELETE /api/prices/:id
DeletePrice(id) ==
    /\ pc \in {"start", "matched"}
    /\ LET result == deletePrice(prices, id)
       IN /\ prices' = result.table
          /\ lastDelete' = [id |-> id, success |-> result.success]
    /\ UNCHANGED <<pc, analyzerVars, pageVars, app, aiVars, csvVars>>

\* PUT /api/prices/:id with a body that sets is_active
UpdatePrice(id) ==
    /\ pc \in {"start", "matched"}
    /\ \E isActive \in BOOLEAN : prices' = updatePrice(prices, id, isActive)
    /\ prices' # prices
    /\ UNCHANGED <<pc, analyzerVars, pageVars, app, aiVars, lastDelete, csvVars>>

InitStorage ==
    /\ prices \in StoredCatalogs
    /\ InitAnalyzer
    /\ InitPage
    /\ InitApp
    /\ InitAI
    /\ InitDelete
    /\ InitCsv

NextStorage ==
    \/ \E id \in RequestIds : DeletePrice(id)
    \/ \E id \in RequestIds : UpdatePrice(id)
    \/ MatchPrices

SpecStorage == InitStorage /\ [][NextStorage]_vars

(***************************************************************************)
(* The analyzer called from a page that holds a PricingConfig              *)
(***************************************************************************)
\* the "International" preset of PricingConfigPanel
InternationalPreset ==
    [DefaultPricingConfig EXCEPT !.tax_rate = Rat(10, 100), !.markup_rate = Rat(25, 100),
                                 !.currency = "USD", !.rounding_increment = 5]

\* the config in force on the page when the analysis is requested; the
\* request body carries itineraryText, numPeople and numDays only
RequestConfigs == {DefaultPricingConfig, InternationalPreset}

InitQuote ==
    /\ prices \in StoredCatalogs
    /\ InitAnalyzer
    /\ analysisResult = NoResult
    /\ currentStep = "analyze"
    /\ pricingConfig \in RequestConfigs
    /\ pricingTotals = NoTotals
    /\ InitApp
    /\ InitAI
    /\ InitDelete
    /\ InitCsv

SpecQuote == InitQuote /\ [][NextAnalyze]_vars

(***************************************************************************)
(* The analyzer over a table filled by the CSV import                      *)
(***************************************************************************)
ImportedCatalogs == {c \in SeqsUpTo(ImportedRows, MaxCatalog) :
                        \A i, j \in 1..Len(c) : i # j => c[i] # c[j]}

InitImported ==
    /\ prices \in ImportedCatalogs
    /\ InitAnalyzer
    /\ InitPage
    /\ InitApp
    /\ InitAI
    /\ InitDelete
    /\ InitCsv

NextImported ==
    \/ MatchPricesOf(SeqsUpTo(ProbeServices, MaxServices))
    \/ CompileAnalysis

SpecImported == InitImported /\ [][NextImported]_vars

(***************************************************************************)
(* The two pages with their pricing panel                                  *)
(***************************************************************************)
\* NewTourPage: the buttons 'Back to Analysis', 'Continue to Pricing' and
\* 'Back to Review'
SetCurrentStep ==
    /\ pc = "review"
    /\ analysisResult # NoResult
    /\ \/ currentStep = "review" /\ currentStep' \in {"analyze", "pricing"}
       \/ currentStep = "pricing" /\ pricingTotals # NoTotals /\ currentStep' = "review"
    /\ UNCHANGED <<prices, pc, analyzerVars, analysisResult, pricingConfig,
                   pricingTotals, app, aiVars, lastDelete, csvVars>>

\* NewTourPage.handlePricingConfigUpdate(config), called by the config panel,
\* which is mounted while currentStep is 'pricing'
HandlePricingConfigUpdate ==
    /\ pc = "review"
    /\ currentStep = "pricing"
    /\ \E config \in PricingConfigs(DefaultPricingConfig) :
          /\ config # pricingConfig
          /\ pricingConfig' = config
          /\ pricingTotals' =
                IF analysisResult # NoResult
                THEN calculatePricing(analysisResult.parsedItinerary, config)
                ELSE pricingTotals
    /\ UNCHANGED <<prices, pc, analyzerVars, analysisResult, currentStep, app,
                   aiVars, lastDelete, csvVars>>

\* EgyptItineraryApp.handleProcessItinerary(input)
HandleProcessItinerary ==
    /\ \/ pc = "start"
       \/ pc = "breakdown" /\ app.currentStep = "input"
    /\ \E input \in ItineraryInputs :
          LET parsed == generateMockParsedItinerary(input, app.pricingConfig)
          IN app' = [app EXCEPT
                        !.parsedItinerary = parsed,
                        !.pricingTotals = calculateMockTotals(parsed, app.pricingConfig),
                        !.currentStep = "breakdown"]
    /\ pc' = "breakdown"
    /\ UNCHANGED <<prices, analyzerVars, pageVars, aiVars, lastDelete, csvVars>>

\* EgyptItineraryApp: the Previous and Next buttons
AppSetCurrentStep ==
    /\ pc = "breakdown"
    /\ app.currentStep # "input"
    /\ LET i == stepIndex(app.currentStep)
       IN \/ /\ i > 1
             /\ app' = [app EXCEPT !.currentStep = stepNavigation[i - 1]]
          \/ /\ i < Len(stepNavigation)
             /\ canProceedToNext(app)
             /\ app' = [app EXCEPT !.currentStep = stepNavigation[i + 1]]
    /\ UNCHANGED <<prices, pc, analyzerVars, pageVars, aiVars, lastDelete, csvVars>>

\* EgyptItineraryApp.handlePricingConfigUpdate(config), called by the config
\* panel, which is mounted while currentStep is 'pricing'
AppHandlePricingConfigUpdate ==
    /\ pc = "breakdown"
    /\ app.currentStep = "pricing"
    /\ \E config \in PricingConfigs(AppDefaultPricingConfig) :
          /\ config # app.pricingConfig
          /\ app' = [app EXCEPT
                        !.pricingConfig = config,
                        !.pricingTotals =
                            IF app.parsedItinerary # NoResult
                            THEN calculateMockTotals(app.parsedItinerary, config)
                            ELSE app.pricingTotals]
    /\ UNCHANGED <<prices, pc, analyzerVars, pageVars, aiVars, lastDelete, csvVars>>

\* the pages and the analyzer before any price has been imported
InitPages ==
    /\ prices = <<>>
    /\ InitAnalyzer
    /\ InitPage
    /\ InitApp
    /\ InitAI
    /\ InitDelete
    /\ InitCsv

NextPages ==
    \/ MatchPrices
    \/ CompileAnalysis
    \/ HandleAnalysisComplete
    \/ SetCurrentStep
    \/ HandlePricingConfigUpdate
    \/ HandleProcessItinerary
    \/ AppSetCurrentStep
    \/ AppHandlePricingConfigUpdate

SpecPages == InitPages /\ [][NextPages]_vars

(***************************************************************************)
(* NewTourPage with the service cards of its daily breakdown               *)
(***************************************************************************)
\* what the unit price and quantity inputs of a ServiceCard can hold when
\* Save is pressed: parseFloat(value) || 0 and parseInt(value) || 1
EditPrices == {0, 40}
EditQuantities == {2}

\* ServiceCard.handleToggleIncluded(included)
handleToggleIncluded(service, included) == [service EXCEPT !.included = included]

\* ServiceCard.handleSaveEdit() with editValues in the inputs
handleSaveEdit(service, editValues) ==
    [service EXCEPT !.unitPrice = editValues.unitPrice,
                    !.quantity = editValues.quantity]

\* the values the inputs start from: service.unitPrice || 0, service.quantity || 1
initialEditValues(service) ==
    [unitPrice |-> service.unitPrice, quantity |-> quantityOr1(service)]

\* the services a card can hand to onUpdate: the switch is always rendered,
\* the edit form only with showPricing
cardUpdates(service, showPricing) ==
    {handleToggleIncluded(service, ~service.included)}
    \cup (IF showPricing
          THEN {handleSaveEdit(service, [unitPrice |-> p, quantity |-> q]) :
                   p \in EditPrices \cup {initialEditValues(service).unitPrice},
                   q \in EditQuantities \cup {initialEditValues(service).quantity}}
          ELSE {})

\* days.findIndex(d => d.day === dayNumber), 0 for -1
findDayIndex(days, dayNumber) ==
    IF \E k \in 1..Len(days) : days[k].day = dayNumber
    THEN CHOOSE k \in 1..Len(days) :
            /\ days[k].day = dayNumber
            /\ \A j \in 1..(k - 1) : days[j].day # dayNumber
    ELSE 0

\* the copy of the itinerary handleServiceUpdate builds
updatedItinerary(itinerary, dayNumber, serviceIndex, service, isPerGroup) ==
    LET dayIndex == findDayIndex(itinerary.days, dayNumber)
    IN IF dayIndex = 0 THEN itinerary
       ELSE IF isPerGroup
            THEN [itinerary EXCEPT !.days[dayIndex].per_group[serviceIndex] = service]
            ELSE [itinerary EXCEPT !.days[dayIndex].per_person[serviceIndex] = service]

\* variant: the totals computed from the itinerary before the edit
handleServiceUpdateStale(result, totals, config, dayNumber, serviceIndex, service, isPerGroup) ==
    IF findDayIndex(result.parsedItinerary.days, dayNumber) = 0
    THEN [analysisResult |-> result, pricingTotals |-> totals]
    ELSE LET updated == updatedItinerary(result.parsedItinerary, dayNumber,
                                         serviceIndex, service, isPerGroup)
         IN [analysisResult |-> [result EXCEPT !.parsedItinerary = updated],
             pricingTotals |-> calculatePricing(result.parsedItinerary, config)]

\* NewTourPage.handleServiceUpdate past its !analysisResult return: the two
\* state values it leaves, both untouched when no day has the number
handleServiceUpdate(result, totals, config, dayNumber, serviceIndex, service, isPerGroup) ==
    IF findDayIndex(result.parsedItinerary.days, dayNumber) = 0
    THEN [analysisResult |-> result, pricingTotals |-> totals]
    ELSE LET updated == updatedItinerary(result.parsedItinerary, dayNumber,
                                         serviceIndex, service, isPerGroup)
         IN [analysisResult |-> [result EXCEPT !.parsedItinerary = updated],
             pricingTotals |-> calculatePricing(updated, config)]

\* a ServiceCard of the DailyBreakdownCard of day k calls onUpdate; the cards
\* are mounted at the 'review' step (showPricing false) and at the 'pricing' step
HandleServiceUpdate ==
    /\ pc = "review"
    /\ analysisResult # NoResult
    /\ currentStep \in {"review", "pricing"}
    /\ \E k \in 1..Len(analysisResult.parsedItinerary.days), isPerGroup \in BOOLEAN :
          LET day == analysisResult.parsedItinerary.days[k]
              lines == IF isPerGroup THEN day.per_group ELSE day.per_person
          IN \E serviceIndex \in 1..Len(lines) :
                \E service \in cardUpdates(lines[serviceIndex], currentStep = "pricing") :
                   LET next == handleServiceUpdate(analysisResult, pricingTotals,
                                                   pricingConfig, day.day, serviceIndex,
                                                   service, isPerGroup)
                   IN /\ analysisResult' = next.analysisResult
                      /\ pricingTotals' = next.pricingTotals
    /\ UNCHANGED <<prices, pc, analyzerVars, currentStep, pricingConfig, app,
                   aiVars, lastDelete, csvVars>>

\* the itineraries the edits are traced on: one line per list
EditDays == {Day(1, <<PrivateCar>>, <<>>), Day(2, <<>>, <<Lunch>>)}

EditItineraries ==
    {[overview |-> [num_people |-> n], days |-> d] :
        n \in 1..MaxPeople,
        d \in {d \in SeqsUpTo(EditDays, MaxItineraryDays) :
                  \A i, j \in 1..Len(d) : i < j => d[i].day < d[j].day}}

NextEdit ==
    \/ HandleAnalysisCompleteOf(EditItineraries)
    \/ SetCurrentStep
    \/ HandlePricingConfigUpdate
    \/ HandleServiceUpdate

SpecEdit == InitPages /\ [][NextEdit]_vars

(***************************************************************************)
(* POST /api/csv-uploads/:id/process                                       *)
(***************************************************************************)
MaxRows == 2
MaxRequests == 2

\* a cell of a parsed record: csv-parse with cast: true turns a numeric cell
\* into a number and leaves every other cell a string
Str(s) == [type |-> "string", value |-> s]
Num(n) == [type |-> "number", value |-> n]

\* a record of the file, under the names the handler maps its columns to
CsvRecord(name, cat, basis, cost) ==
    [service_name |-> name, category |-> cat, cost_basis |-> basis, base_cost |-> cost]

RowAirportPickup ==
    CsvRecord(Str("Airport Pickup"), Str("Transport"), Str("per_group"), Str("20 €"))
RowNoName ==
    CsvRecord(Str(""), Str("Transport"), Str("per_group"), Str("."))
RowBareNumber ==
    CsvRecord(Str("Hotel"), Str(""), Str("per_night"), Num(96))

CsvRecords == {RowAirportPickup, RowNoName, RowBareNumber}

RECURSIVE RecordLists(_)
RecordLists(n) ==
    IF n = 0 THEN {<<>>}
    ELSE RecordLists(n - 1) \cup
         {Append(l, r) : l \in {x \in RecordLists(n - 1) : Len(x) = n - 1}, r \in CsvRecords}

\* the file at upload.file_path: its records, or a file that cannot be read
Unreadable == [kind |-> "ENOENT"]
Files == {[kind |-> "csv", records |-> l] : l \in RecordLists(MaxRows)} \cup {Unreadable}

DigitChars == {"0", "1", "2", "3", "4", "5", "6", "7", "8", "9"}
DigitString == "0123456789"
DigitValue(c) == CHOOSE d \in 0..9 : SubSeq(DigitString, d + 1, d + 1) = c

Char(s, i) == SubSeq(s, i, i)

\* the end of the longest run of characters of the class that starts at i
\* (i - 1 when the character at i is not of the class)
RunEnd(s, i, class) ==
    LET ends == {j \in (i - 1)..Len(s) : \A k \in i..j : Char(s, k) \in class}
    IN  CHOOSE j \in ends : \A e \in ends : e <= j

RECURSIVE DigitsValue(_)
DigitsValue(s) ==
    IF Len(s) = 0 THEN 0
    ELSE 10 * DigitsValue(SubSeq(s, 1, Len(s) - 1)) + DigitValue(Char(s, Len(s)))

RECURSIVE PowerOfTen(_)
PowerOfTen(n) == IF n = 0 THEN 1 ELSE 10 * PowerOfTen(n - 1)

NaN == [kind |-> "NaN"]

\* parseFloat on a string without sign, exponent or leading blanks: the
\* longest prefix digits [. digits]; NaN when that prefix holds no digit
parseFloat(s) ==
    LET intEnd == RunEnd(s, 1, DigitChars)
        hasDot == intEnd < Len(s) /\ Char(s, intEnd + 1) = "."
        fracEnd == IF hasDot THEN RunEnd(s, intEnd + 2, DigitChars) ELSE intEnd
        int == SubSeq(s, 1, intEnd)
        frac == IF hasDot THEN SubSeq(s, intEnd + 2, fracEnd) ELSE ""
        scale == PowerOfTen(Len(frac))
        value == Rat(DigitsValue(int) * scale + DigitsValue(frac), scale)
    IN  IF Len(int) = 0 /\ Len(frac) = 0 THEN NaN
        ELSE IF value.den = 1 THEN value.num ELSE value

\* String.prototype.trim
RECURSIVE Trim(_)
Trim(s) ==
    IF Len(s) = 0 THEN s
    ELSE IF Char(s, 1) = " " THEN Trim(SubSeq(s, 2, Len(s)))
    ELSE IF Char(s, Len(s)) = " " THEN Trim(SubSeq(s, 1, Len(s) - 1))
    ELSE s

\* baseCostStr.match(/([0-9.]+)\s*([€$])/): the leftmost match, or null
NoMatch == [kind |-> "null"]
baseCostMatch(s) ==
    LET numEnd(i) == RunEnd(s, i, DigitChars \cup {"."})
        symAt(i) == RunEnd(s, numEnd(i) + 1, {" "}) + 1
        starts == {i \in 1..Len(s) :
                      /\ numEnd(i) >= i
                      /\ symAt(i) <= Len(s)
                      /\ Char(s, symAt(i)) \in {"€", "$"}}
    IN  IF starts = {} THEN NoMatch
        ELSE LET i == CHOOSE a \in starts : \A b \in starts : a <= b
             IN  <<SubSeq(s, i, symAt(i)), SubSeq(s, i, numEnd(i)), Char(s, symAt(i))>>

\* unit_price and currency out of validatedRow.base_cost
parseBaseCost(base_cost) ==
    LET baseCostStr == Trim(base_cost)
        priceMatch == baseCostMatch(baseCostStr)
    IN  IF baseCostStr # "" /\ baseCostStr # "."
        THEN IF priceMatch # NoMatch
             THEN [unitPrice |-> parseFloat(priceMatch[2]),
                   currency |-> IF priceMatch[3] = "€" THEN "EUR" ELSE "USD"]
             ELSE [unitPrice |-> IF parseFloat(baseCostStr) # NaN
                                 THEN parseFloat(baseCostStr) ELSE 0,
                   currency |-> "EUR"]
        ELSE [unitPrice |-> 0, currency |-> "EUR"]

\* csvRowSchema.parse: the issues of a record, in the order of the schema
requiredIssue(cell, path, message) ==
    IF cell.type # "string" THEN <<path \o ": Expected string, received " \o cell.type>>
    ELSE IF Len(cell.value) < 1 THEN <<path \o ": " \o message>>
    ELSE <<>>

optionalIssue(cell, path) ==
    IF cell.type # "string" THEN <<path \o ": Expected string, received " \o cell.type>>
    ELSE <<>>

csvRowIssues(record) ==
    requiredIssue(record.service_name, "service_name", "Service name is required")
    \o optionalIssue(record.category, "category")
    \o requiredIssue(record.cost_basis, "cost_basis", "Cost basis is required")
    \o requiredIssue(record.base_cost, "base_cost", "Base cost is required")

\* Array.prototype.join(', ')
RECURSIVE JoinComma(_)
JoinComma(seq) ==
    IF Len(seq) = 0 THEN ""
    ELSE IF Len(seq) = 1 THEN seq[1]
    ELSE seq[1] \o ", " \o JoinComma(Tail(seq))

\* the InsertPrice pushed for a valid record (id is given by the table)
priceToCreate(record, upload) ==
    LET cost == parseBaseCost(record.base_cost.value)
    IN  Price("", record.service_name.value, record.category.value, "",
              record.cost_basis.value, cost.unitPrice, cost.currency, "",
              upload.city, TRUE)

\* variant: the first record that fails validation ends the loop
RECURSIVE processRecordsUntilError(_, _, _)
processRecordsUntilError(records, upload, i) ==
    IF i > Len(records)
    THEN [pricesToCreate |-> <<>>, recordsProcessed |-> 0, recordsFailed |-> 0,
          errors |-> <<>>]
    ELSE LET issues == csvRowIssues(records[i])
         IN  IF issues = <<>>
             THEN LET rest == processRecordsUntilError(records, upload, i + 1)
                  IN  [rest EXCEPT
                          !.pricesToCreate = <<priceToCreate(records[i], upload)>> \o @,
                          !.recordsProcessed = @ + 1]
             ELSE [pricesToCreate |-> <<>>, recordsProcessed |-> 0, recordsFailed |-> 1,
                   errors |-> <<[row |-> i + 1, data |-> records[i],
                                 error |-> JoinComma(issues)]>>]

\* the loop over the records: pricesToCreate, the two counters and errors
RECURSIVE processRecords(_, _, _)
processRecords(records, upload, i) ==
    IF i > Len(records)
    THEN [pricesToCreate |-> <<>>, recordsProcessed |-> 0, recordsFailed |-> 0,
          errors |-> <<>>]
    ELSE LET rest == processRecords(records, upload, i + 1)
             issues == csvRowIssues(records[i])
         IN  IF issues = <<>>
             THEN [rest EXCEPT
                      !.pricesToCreate = <<priceToCreate(records[i], upload)>> \o @,
                      !.recordsProcessed = @ + 1]
             ELSE [rest EXCEPT
                      !.recordsFailed = @ + 1,
                      !.errors = <<[row |-> i + 1, data |-> records[i],
                                    error |-> JoinComma(issues)]>> \o @]

\* storage.bulkCreatePrices: the rows are appended under fresh ids
bulkCreatePrices(table, pricesList) ==
    table \o [k \in 1..Len(pricesList) |->
                 [pricesList[k] EXCEPT !.id = "c" \o ToString(Len(table) + k)]]

Null == [kind |-> "null"]

\* storage.createCsvUpload of the upload route: the columns the handler reads
\* or writes, and the file kept at file_path
createCsvUpload(city, file) ==
    [city |-> city, file |-> file, status |-> "pending", processed_at |-> Null,
     error_log |-> Null, records_processed |-> 0, records_failed |-> 0]

\* storage.updateCsvUpload(id, {status: 'processing'})
markProcessing(upload) ==
    IF upload = NoUpload THEN upload ELSE [upload EXCEPT !.status = "processing"]

\* storage.updateCsvUpload(id, {status: 'completed', ...})
markCompleted(upload, result) ==
    IF upload = NoUpload THEN upload
    ELSE [upload EXCEPT
             !.status = "completed",
             !.processed_at = [kind |-> "Date"],
             !.records_processed = result.recordsProcessed,
             !.records_failed = result.recordsFailed,
             !.error_log = IF Len(result.errors) > 0
                           THEN [kind |-> "json", value |-> result.errors]
                           ELSE Null]

\* storage.updateCsvUpload(id, {status: 'failed', ...})
markFailed(upload, message) ==
    IF upload = NoUpload THEN upload
    ELSE [upload EXCEPT
             !.status = "failed",
             !.processed_at = [kind |-> "Date"],
             !.error_log = [kind |-> "text", value |-> message]]

NoOutcome == [pricesToCreate |-> <<>>, recordsProcessed |-> 0, recordsFailed |-> 0,
              errors |-> <<>>]

\* a request as the handler holds it: where it stands, the upload row it
\* read, the outcome of its loop, the message it caught, its response status
Request(at, upload, outcome, message, status) ==
    [at |-> at, upload |-> upload, outcome |-> outcome, message |-> message,
     status |-> status]

\* const upload = await storage.getCsvUpload(req.params.id), for a request
\* that arrives now
GetCsvUpload ==
    /\ pc = "start"
    /\ Len(requests) < MaxRequests
    /\ requests' = Append(requests, Request("fetched", csvUpload, NoOutcome, "", 0))
    /\ UNCHANGED <<prices, pc, analyzerVars, pageVars, app, aiVars, lastDelete, csvUpload>>

\* the two early returns, and updateCsvUpload(id, {status: 'processing'})
StartProcessing(r) ==
    /\ requests[r].at = "fetched"
    /\ IF requests[r].upload = NoUpload
       THEN /\ requests' = [requests EXCEPT ![r].at = "done", ![r].status = 404]
            /\ UNCHANGED csvUpload
       ELSE IF requests[r].upload.status # "pending"
       THEN /\ requests' = [requests EXCEPT ![r].at = "done", ![r].status = 400]
            /\ UNCHANGED csvUpload
       ELSE /\ csvUpload' = markProcessing(csvUpload)
            /\ requests' = [requests EXCEPT ![r].at = "processing"]
    /\ UNCHANGED <<prices, pc, analyzerVars, pageVars, app, aiVars, lastDelete>>

\* fs.readFile, parse and the loop over the records
ReadFile(r) ==
    /\ requests[r].at = "processing"
    /\ LET upload == requests[r].upload
       IN  IF upload.file = Unreadable
           THEN requests' = [requests EXCEPT
                                ![r].at = "catch",
                                ![r].message = "ENOENT: no such file or directory"]
           ELSE LET outcome == processRecords(upload.file.records, upload, 1)
                IN  requests' = [requests EXCEPT
                                    ![r].outcome = outcome,
                                    ![r].at = IF Len(outcome.pricesToCreate) > 0
                                              THEN "insert" ELSE "complete"]
    /\ UNCHANGED <<prices, pc, analyzerVars, pageVars, app, aiVars, lastDelete, csvUpload>>

\* await storage.bulkCreatePrices(pricesToCreate); the insert may be rejected
BulkCreatePrices(r) ==
    /\ requests[r].at = "insert"
    /\ \E ok \in BOOLEAN :
          IF ok
          THEN /\ prices' = bulkCreatePrices(prices, requests[r].outcome.pricesToCreate)
               /\ requests' = [requests EXCEPT ![r].at = "complete"]
          ELSE /\ requests' = [requests EXCEPT
                                  ![r].at = "catch",
                                  ![r].message = "insert into prices failed"]
               /\ UNCHANGED prices
    /\ UNCHANGED <<pc, analyzerVars, pageVars, app, aiVars, lastDelete, csvUpload>>

\* await storage.updateCsvUpload(id, {status: 'completed', ...}) and the
\* response; the update may be rejected
CompleteProcessing(r) ==
    /\ requests[r].at = "complete"
    /\ \E ok \in BOOLEAN :
          IF ok
          THEN /\ csvUpload' = markCompleted(csvUpload, requests[r].outcome)
               /\ requests' = [requests EXCEPT ![r].at = "done", ![r].status = 200]
          ELSE /\ requests' = [requests EXCEPT
                                  ![r].at = "catch",
                                  ![r].message = "update csv_uploads failed"]
               /\ UNCHANGED csvUpload
    /\ UNCHANGED <<prices, pc, analyzerVars, pageVars, app, aiVars, lastDelete>>

\* the catch block: updateCsvUpload(id, {status: 'failed', ...}) and 500
FailProcessing(r) ==
    /\ requests[r].at = "catch"
    /\ csvUpload' = markFailed(csvUpload, requests[r].message)
    /\ requests' = [requests EXCEPT ![r].at = "done", ![r].status = 500]
    /\ UNCHANGED <<prices, pc, analyzerVars, pageVars, app, aiVars, lastDelete>>

\* POST /api/csv-uploads: the row of the traced upload is created
CreateCsvUpload ==
    /\ pc = "start"
    /\ csvUpload = NoUpload
    /\ \E file \in Files : csvUpload' = createCsvUpload("Cairo", file)
    /\ UNCHANGED <<prices, pc, analyzerVars, pageVars, app, aiVars, lastDelete, requests>>

InitCsvRoutes ==
    /\ prices = <<CairoAirportPickup>>
    /\ InitAnalyzer
    /\ InitPage
    /\ InitApp
    /\ InitAI
    /\ InitDelete
    /\ InitCsv

NextCsv ==
    \/ CreateCsvUpload
    \/ GetCsvUpload
    \/ \E r \in 1..Len(requests) : StartProcessing(r)
    \/ \E r \in 1..Len(requests) : ReadFile(r)
    \/ \E r \in 1..Len(requests) : BulkCreatePrices(r)
    \/ \E r \in 1..Len(requests) : CompleteProcessing(r)
    \/ \E r \in 1..Len(requests) : FailProcessing(r)

SpecCsv == InitCsvRoutes /\ [][NextCsv]_vars

(***************************************************************************)
(* AIItineraryParser.analyzeAndMatchServices                               *)
(***************************************************************************)
Undefined == [kind |-> "undefined"]

\* the value of an optional numeric field that is present
Number(n) == [kind |-> "number", value |-> n]

\* a Service as parseItineraryStructure returns it: the parsed JSON carries
\* no unitPrice
AILine(name, cat, loc, basis, quantity, requirements) ==
    [service |-> name, category |-> cat, location |-> loc, cost_basis |-> basis,
     quantity |-> quantity, requirements |-> requirements, unitPrice |-> Undefined]

TransferSedan ==
    AILine("Airport transfer", "transportation", "Cairo", "per_group", 1, "Sedan")
TransferVan ==
    AILine("Airport transfer", "transportation", "", "per_group", 2, "Van")
EntryTicket ==
    AILine("Pyramids entrance", "entrance", "Giza", "per_person", 1, "")

\* one-day itineraries of parseItineraryStructure
AIItineraries ==
    {[overview |-> [num_days |-> 1, num_people |-> n],
      days |-> <<Day(1, g, p)>>] :
        n \in 1..MaxPeople,
        g \in SeqsUpTo({TransferSedan, TransferVan}, MaxServices),
        p \in SeqsUpTo({EntryTicket}, 1)}

\* the JSON a findBestPriceMatch completion parses to, or a failed call
AIError == [kind |-> "error"]
AIAnalysis(bestMatch, confidence, priceFound, missingInfo) ==
    [kind |-> "json", bestMatch |-> bestMatch, confidence |-> confidence,
     priceFound |-> priceFound, missingInfo |-> missingInfo]

AIAnswers(dbPrices) ==
    {AIAnalysis(dbPrices[k], 90, TRUE, "") : k \in 1..Len(dbPrices)}
      \cup {AIAnalysis(Null, 0, FALSE, ""),
            AIAnalysis(Null, 40, TRUE, "no price for this vehicle"),
            AIError}

\* findBestPriceMatch(service, dbPrices) given what the completion call gave
findBestPriceMatch(service, answer) ==
    IF answer = AIError
    THEN [service |-> service, confidence |-> 0, dbMatch |-> Undefined,
          priceFound |-> FALSE, missingInfo |-> "Error matching prices"]
    ELSE [service |-> service, confidence |-> answer.confidence,
          dbMatch |-> answer.bestMatch, priceFound |-> answer.priceFound,
          missingInfo |-> IF answer.missingInfo # "" THEN answer.missingInfo
                          ELSE "No matching price found"]

\* {...s, day: day.day, isPerGroup}
serviceCopy(s, day, isPerGroup) ==
    [service |-> s.service, category |-> s.category, location |-> s.location,
     cost_basis |-> s.cost_basis, quantity |-> s.quantity,
     requirements |-> s.requirements, unitPrice |-> s.unitPrice,
     day |-> day, isPerGroup |-> isPerGroup]

\* the loop that collects allServices
RECURSIVE collectServices(_)
collectServices(days) ==
    IF Len(days) = 0 THEN <<>>
    ELSE [i \in 1..Len(days[1].per_group) |->
             serviceCopy(days[1].per_group[i], days[1].day, TRUE)]
         \o [i \in 1..Len(days[1].per_person) |->
                serviceCopy(days[1].per_person[i], days[1].day, FALSE)]
         \o collectServices(Tail(days))

\* the loop over allServices: the match of service k; the found price is
\* written into the copy the match holds
matchOf(service, answer) ==
    LET match == findBestPriceMatch(service, answer)
    IN  IF match.priceFound
        THEN [match EXCEPT !.service.unitPrice = Number(match.dbMatch.unit_price)]
        ELSE match

\* a match whose priceFound is true and whose bestMatch is null: reading
\* match.dbMatch.unit_price throws a TypeError
throwsOn(service, answer) ==
    LET match == findBestPriceMatch(service, answer)
    IN  match.priceFound /\ match.dbMatch \in {Null, Undefined}

missingPriceOf(match) ==
    match.service.service \o " in "
      \o (IF match.service.location # "" THEN match.service.location
          ELSE "unknown location")
      \o " - " \o match.missingInfo

\* matches.find(m => m.service.day === day.day && m.service.service ===
\* line.service && m.service.isPerGroup === isPerGroup): the first one
findMatch(ms, day, line, isPerGroup) ==
    LET hits == {k \in 1..Len(ms) :
                    /\ ms[k].service.day = day
                    /\ ms[k].service.service = line.service
                    /\ ms[k].service.isPerGroup = isPerGroup}
    IN  IF hits = {} THEN Undefined
        ELSE ms[CHOOSE k \in hits : \A h \in hits : k <= h]

updateLine(ms, day, line, isPerGroup) ==
    LET match == findMatch(ms, day, line, isPerGroup)
    IN  IF match # Undefined /\ match.priceFound
        THEN [line EXCEPT !.unitPrice = Number(match.dbMatch.unit_price)]
        ELSE line

\* updateItineraryWithPrices(itinerary, matches): the itinerary object after
\* the call
updateItineraryWithPrices(itinerary, ms) ==
    [itinerary EXCEPT
        !.days = [d \in 1..Len(itinerary.days) |->
                     [itinerary.days[d] EXCEPT
                         !.per_group = [i \in 1..Len(itinerary.days[d].per_group) |->
                                           updateLine(ms, itinerary.days[d].day,
                                                      itinerary.days[d].per_group[i], TRUE)],
                         !.per_person = [i \in 1..Len(itinerary.days[d].per_person) |->
                                            updateLine(ms, itinerary.days[d].day,
                                                       itinerary.days[d].per_person[i], FALSE)]]]]

\* analyzeAndMatchServices(itinerary) given the completions (dbPrices only
\* enters their prompts): the value returned together with the itinerary
\* object as the call leaves it, or the error thrown
analyzeAndMatchServices(itinerary, answers) ==
    LET allServices == collectServices(itinerary.days)
        ms == [k \in 1..Len(allServices) |-> matchOf(allServices[k], answers[k])]
        missing == SelectSeq(ms, LAMBDA m : ~m.priceFound)
    IN  IF \E k \in 1..Len(allServices) : throwsOn(allServices[k], answers[k])
        THEN Throw("Cannot read properties of null (reading 'unit_price')")
        ELSE Return([itinerary |-> updateItineraryWithPrices(itinerary, ms),
                     matches |-> ms,
                     missingPrices |-> [k \in 1..Len(missing) |-> missingPriceOf(missing[k])]])

\* step 1 of analyzeItinerary: parseItineraryStructure
ParseItineraryStructure ==
    /\ pc = "start"
    /\ \E itinerary \in AIItineraries : parsedItinerary' = itinerary
    /\ pc' = "parsed"
    /\ UNCHANGED <<prices, analyzerVars, pageVars, app, priceMatches, missingPrices,
                   lastDelete, csvVars>>

\* step 2 of analyzeItinerary: analyzeAndMatchServices(parsedItinerary)
AnalyzeAndMatchServices ==
    /\ pc = "parsed"
    /\ LET dbPrices == getPrices(prices, TRUE)
           n == Len(collectServices(parsedItinerary.days))
       IN  \E answers \in [1..n -> AIAnswers(dbPrices)] :
              LET result == analyzeAndMatchServices(parsedItinerary, answers)
              IN  IF result.threw
                  THEN /\ pc' = "failed"
                       /\ error' = "Failed to analyze itinerary: " \o result.message
                       /\ UNCHANGED aiVars
                  ELSE /\ pc' = "priced"
                       /\ parsedItinerary' = result.value.itinerary
                       /\ priceMatches' = result.value.matches
                       /\ missingPrices' = result.value.missingPrices
                       /\ UNCHANGED error
    /\ UNCHANGED <<prices, services, matches, numPeople, analysis, completion,
                   pageVars, app, lastDelete, csvVars>>

InitAIParser ==
    /\ prices = <<CairoAirportPickup, CairoAirportPickupRetired, PyramidsTicket>>
    /\ InitAnalyzer
    /\ InitPage
    /\ InitApp
    /\ InitAI
    /\ InitDelete
    /\ InitCsv

NextAI == ParseItineraryStructure \/ AnalyzeAndMatchServices

SpecAI == InitAIParser /\ [][NextAI]_vars

(***************************************************************************)
(* Properties of the matcher                                               *)
(***************************************************************************)
Matched == pc \in {"matched", "compiled"}

\* the active rows of the table, in table order
ActiveRows == SelectSeq(prices, LAMBDA p : p.is_active)

\* the highest score of service s over the active rows; 0 when there is none
TopScore(s) ==
    LET scores == {scoreTable[s, ActiveRows[k]] : k \in 1..Len(ActiveRows)} \cup {0}
    IN CHOOSE x \in scores : \A y \in scores : y <= x

\* C1: a result has matched = TRUE iff the highest score over the catalog is
\* at least 60; a matched result carries a row of that score, the row's
\* unit price and currency, and the score as confidence
C1_MatchedIffThreshold ==
    Matched =>
        \A i \in 1..Len(matches) :
            LET m == matches[i]
                top == TopScore(m.service)
            IN /\ m.matched = (top >= 60)
               /\ m.matched =>
                    /\ \E k \in 1..Len(ActiveRows) : ActiveRows[k] = m.database_match
                    /\ scoreTable[m.service, m.database_match] = top
                    /\ m.confidence = top
                    /\ m.price = m.database_match.unit_price
                    /\ m.currency = m.database_match.currency

\* a result matched at exactly 60 beside a result unmatched with a positive score
C1_Witness ==
    /\ pc = "matched"
    /\ \E i, j \in 1..Len(matches) :
          /\ matches[i].matched
          /\ matches[i].confidence = 60
          /\ ~matches[j].matched
          /\ TopScore(matches[j].service) > 0

\* C2: the row bound to a matched result has the maximum score over the
\* catalog, and every row before it in iteration order scores strictly less
C2_FirstMaximumWins ==
    Matched =>
        \A i \in 1..Len(matches) :
            matches[i].matched =>
                \E k \in 1..Len(ActiveRows) :
                    /\ ActiveRows[k] = matches[i].database_match
                    /\ \A j \in 1..Len(ActiveRows) :
                          /\ scoreTable[matches[i].service, ActiveRows[j]]
                                <= scoreTable[matches[i].service, ActiveRows[k]]
                          /\ j < k =>
                                scoreTable[matches[i].service, ActiveRows[j]]
                                    < scoreTable[matches[i].service, ActiveRows[k]]

\* two rows tie at the maximum score and the first one is bound
C2_Witness ==
    /\ pc = "matched"
    /\ \E i \in 1..Len(matches) :
          /\ matches[i].matched
          /\ Len(ActiveRows) >= 2
          /\ ActiveRows[1] = matches[i].database_match
          /\ scoreTable[matches[i].service, ActiveRows[2]] = matches[i].confidence

\* C3: matchPrices returns one result per input service, result i for
\* service i, and the empty list for the empty service list
C3_OneResultPerServiceInOrder ==
    Matched =>
        /\ Len(matches) = Len(services)
        /\ \A i \in 1..Len(services) : matches[i].service = services[i]
        /\ services = <<>> => matches = <<>>

\* two different services matched in one call
C3_Witness ==
    /\ pc = "matched"
    /\ Len(services) >= 2
    /\ services[1] # services[2]
    /\ matches[1].service = services[1]

\* C4: the score of every (service, row) pair lies in 0..100: 10 per search
\* term found up to 30, category 0 or 40, location 0 or 20, cost basis 10
\* when equal and 0 otherwise, summed and capped at 100
C4_ScoreRange ==
    Matched =>
        \A i \in 1..Len(services), k \in 1..Len(prices) :
            LET c == partsTable[services[i], prices[k]]
                sc == scoreTable[services[i], prices[k]]
            IN /\ c.found \in 0..3
               /\ c.text = 10 * c.found
               /\ c.text <= 30
               /\ c.category \in {0, 40}
               /\ c.location \in {0, 20}
               /\ c.basis = (IF services[i].cost_basis = prices[k].cost_basis THEN 10 ELSE 0)
               /\ sc = Min(100, c.text + c.category + c.location + c.basis)
               /\ sc >= 0
               /\ sc <= 100

\* one pair scoring the full 100 and one pair scoring 0 in the same call
C4_Witness ==
    /\ pc = "matched"
    /\ \E i, j \in 1..Len(services), k, l \in 1..Len(prices) :
          /\ scoreTable[services[i], prices[k]] = 100
          /\ partsTable[services[i], prices[k]].text = 30
          /\ scoreTable[services[j], prices[l]] = 0

\* C5 as stated: "Airport pickup" against "Cairo Airport Pickup" scores 100
\* (text 30 + category 40 + location 20 + cost basis 10) and is matched at
\* 20 EUR
C5_AsStated ==
    (Matched /\ ActiveRows = <<CairoAirportPickup>>) =>
        \A i \in 1..Len(matches) :
            services[i] = AirportPickup =>
                /\ partsTable[AirportPickup, CairoAirportPickup].text = 30
                /\ scoreTable[AirportPickup, CairoAirportPickup] = 100
                /\ matches[i].matched
                /\ matches[i].confidence = 100
                /\ matches[i].price = 20
                /\ matches[i].currency = "EUR"

\* C5 (amended): "Airport pickup" against "Cairo Airport Pickup" scores 90:
\* text 20 (the description and the location are found in the row text, the
\* category term "transportation" is not) + category 40 + location 20 + cost
\* basis 10; the result is matched at 20 EUR with confidence 90
C5_AirportPickupScores90 ==
    (Matched /\ ActiveRows = <<CairoAirportPickup>>) =>
        \A i \in 1..Len(matches) :
            services[i] = AirportPickup =>
                /\ partsTable[AirportPickup, CairoAirportPickup] =
                      [found |-> 2, text |-> 20, category |-> 40,
                       location |-> 20, basis |-> 10]
                /\ scoreTable[AirportPickup, CairoAirportPickup] = 90
                /\ matches[i].matched
                /\ matches[i].confidence = 90
                /\ matches[i].price = 20
                /\ matches[i].currency = "EUR"
                /\ matches[i].database_match = CairoAirportPickup

\* the scenario of C5 has been matched
C5_Witness ==
    /\ pc = "matched"
    /\ prices = <<CairoAirportPickup>>
    /\ services = <<AirportPickup>>
    /\ matches[1].matched

\* C6 as stated: with the row's category "accommodation" the category part
\* is 0, the score is exactly 60 and the service is still matched
C6_AsStated ==
    (Matched /\ ActiveRows = <<CairoAirportPickupAccommodation>>) =>
        \A i \in 1..Len(matches) :
            services[i] = AirportPickup =>
                /\ partsTable[AirportPickup, CairoAirportPickupAccommodation].category = 0
                /\ scoreTable[AirportPickup, CairoAirportPickupAccommodation] = 60
                /\ matches[i].matched

\* C6 (amended): with the row's category "accommodation" the category part
\* is 0 and the score is 50 (text 20 + 0 + location 20 + cost basis 10),
\* below the threshold: the service is reported unmatched, with the
\* transportation hint
C6_AccommodationRowScores50 ==
    (Matched /\ ActiveRows = <<CairoAirportPickupAccommodation>>) =>
        \A i \in 1..Len(matches) :
            services[i] = AirportPickup =>
                /\ partsTable[AirportPickup, CairoAirportPickupAccommodation] =
                      [found |-> 2, text |-> 20, category |-> 0,
                       location |-> 20, basis |-> 10]
                /\ scoreTable[AirportPickup, CairoAirportPickupAccommodation] = 50
                /\ ~matches[i].matched
                /\ matches[i].hint =
                      "Add a price for: \"Airport pickup\" in Cairo. Specify vehicle type and passenger capacity if applicable."

\* the scenario of C6 has been matched
C6_Witness ==
    /\ pc = "matched"
    /\ prices = <<CairoAirportPickupAccommodation>>
    /\ services = <<AirportPickup>>
    /\ ~matches[1].matched

\* C7: when the catalog holds no active row, every input service gets a
\* result, and every result has matched = FALSE
C7_EmptyCatalogAllUnmatched ==
    (Matched /\ \A k \in 1..Len(prices) : ~prices[k].is_active) =>
        /\ Len(matches) = Len(services)
        /\ \A i \in 1..Len(matches) :
              /\ ~matches[i].matched
              /\ matches[i].service = services[i]

\* two services matched against an empty table
C7_Witness ==
    /\ pc = "matched"
    /\ prices = <<>>
    /\ Len(services) = 2
    /\ ~matches[1].matched
    /\ ~matches[2].matched

LocationHintCategories == {"transportation", "guide_personnel", "accommodation"}

\* C8: a service whose best score is below 60 is returned with matched =
\* FALSE, without price, currency, confidence or row, and with a hint of the
\* per-category table: it opens with "Add a price for: " and the quoted
\* description, and for the categories that name a place continues with
\* " in " and the location, or 'unknown location' when there is none
C8_UnmatchedCarriesHint ==
    Matched =>
        \A i \in 1..Len(matches) :
            TopScore(services[i]) < 60 =>
                LET m == matches[i]
                    opening == "Add a price for: \"" \o services[i].description \o "\""
                    place == " in "
                               \o (IF services[i].location # ""
                                   THEN services[i].location
                                   ELSE "unknown location")
                               \o "."
                IN /\ ~m.matched
                   /\ DOMAIN m = {"service", "matched", "hint"}
                   /\ m.service = services[i]
                   /\ Len(m.hint) > Len(opening)
                   /\ SubSeq(m.hint, 1, Len(opening)) = opening
                   /\ services[i].category \in LocationHintCategories =>
                         SubSeq(m.hint, Len(opening) + 1, Len(opening) + Len(place)) = place

\* an unmatched service without location in a category whose hint names the
\* place, beside an unmatched service with a positive score
C8_Witness ==
    /\ pc = "matched"
    /\ \E i, j \in 1..Len(matches) :
          /\ ~matches[i].matched
          /\ services[i].location = ""
          /\ services[i].category \in LocationHintCategories
          /\ ~matches[j].matched
          /\ TopScore(services[j]) > 0

(***************************************************************************)
(* Properties of the aggregation                                           *)
(***************************************************************************)
GroupBases == {"per_group", "flat_rate", "per_night", "per_day"}

\* price x quantity of result m when it is matched on one of the given cost
\* bases, 0 otherwise
Contribution(m, bases) ==
    IF m.matched /\ m.service.cost_basis \in bases
    THEN m.price * m.service.quantity
    ELSE 0

\* price x quantity of an itinerary line that is included and priced
\* (quantity 1 when the line has none), 0 otherwise
LineContribution(l) ==
    IF l.included /\ l.unitPrice > 0
    THEN l.unitPrice * (IF l.quantity > 0 THEN l.quantity ELSE 1)
    ELSE 0

LinesContribution(lines) == SumSeq([k \in 1..Len(lines) |-> LineContribution(lines[k])])

\* C9: a matched per_person service adds price x quantity to the per-person
\* net sum and price x quantity x numPeople to the group-level total; a
\* matched per_group, flat_rate, per_night or per_day service adds price x
\* quantity to the per-group net sum and to the group-level total.  On the
\* page, each day's net total is the per-group lines plus numPeople times the
\* per-person lines.
C9_ContributionByCostBasis ==
    /\ pc = "compiled" =>
          LET perPersonNet ==
                  SumSeq([i \in 1..Len(matches) |-> Contribution(matches[i], {"per_person"})])
              perGroupNet ==
                  SumSeq([i \in 1..Len(matches) |-> Contribution(matches[i], GroupBases)])
          IN /\ analysis.pricing.per_person_total = perPersonNet
             /\ analysis.pricing.per_group_total - analysis.pricing.per_person_total * numPeople
                   = perGroupNet
             /\ analysis.pricing.per_group_total = perGroupNet + perPersonNet * numPeople
    /\ pc = "review" =>
          LET itinerary == analysisResult.parsedItinerary
          IN \A k \in 1..Len(itinerary.days) :
                pricingTotals.daily_totals[k].net_total =
                    LinesContribution(itinerary.days[k].per_group)
                      + LinesContribution(itinerary.days[k].per_person)
                          * itinerary.overview.num_people

\* totals compiled for two or more people from a matched per_person service
\* and a matched per_night or per_day service
C9_Witness ==
    /\ pc = "compiled"
    /\ numPeople >= 2
    /\ \E i, j \in 1..Len(matches) :
          /\ matches[i].matched
          /\ matches[i].service.cost_basis = "per_person"
          /\ matches[j].matched
          /\ matches[j].service.cost_basis \in {"per_night", "per_day"}
    /\ analysis.pricing.per_person_total > 0
    /\ analysis.pricing.per_group_total
          > analysis.pricing.per_person_total * numPeople

\* C10 as stated: net_per_person is the sum of price x quantity over the
\* per_person services only; a service on a per-group basis adds 0 to it and
\* is never divided by numPeople into it
C10_AsStated ==
    /\ pc = "compiled" =>
          analysis.pricing.per_person_total =
              SumSeq([i \in 1..Len(matches) |-> Contribution(matches[i], {"per_person"})])
    /\ pc = "review" =>
          LET days == analysisResult.parsedItinerary.days
          IN pricingTotals.net_per_person =
                RatInt(SumSeq([k \in 1..Len(days) |-> LinesContribution(days[k].per_person)]))

(***************************************************************************)
(* Properties of the quotation totals                                      *)
(***************************************************************************)
\* tax on the net, markup on net plus tax, sell price their sum
TotalsFollowFormula(totals, config) ==
    /\ totals.tax_amount = RatMul(totals.net_per_person, config.tax_rate)
    /\ totals.markup_amount =
          RatMul(RatAdd(totals.net_per_person, totals.tax_amount), config.markup_rate)
    /\ totals.sell_per_person =
          RatAdd(RatAdd(totals.net_per_person, totals.tax_amount), totals.markup_amount)

\* C11 as stated: on both pages the totals satisfy tax_amount =
\* net_per_person x tax_rate, markup_amount = (net_per_person + tax_amount) x
\* markup_rate and sell_per_person = net + tax + markup; a net of 100 per
\* person at tax 0.12 and markup 0.20 gives tax 12, markup 22.4 and
\* sell_per_person 134.4
C11_AsStated ==
    /\ (pc = "review" /\ pricingTotals # NoTotals) =>
          /\ TotalsFollowFormula(pricingTotals, pricingConfig)
          /\ (/\ pricingTotals.net_per_person = RatInt(100)
              /\ pricingConfig.tax_rate = Rat(12, 100)
              /\ pricingConfig.markup_rate = Rat(20, 100)) =>
                /\ pricingTotals.tax_amount = RatInt(12)
                /\ pricingTotals.markup_amount = Rat(224, 10)
                /\ pricingTotals.sell_per_person = Rat(1344, 10)
    /\ (pc = "breakdown" /\ app.pricingTotals # NoTotals) =>
          TotalsFollowFormula(app.pricingTotals, app.pricingConfig)

\* C11, NewTourPage alone: calculatePricing follows the formula
C11_CalculatePricingFollowsFormula ==
    (pc = "review" /\ pricingTotals # NoTotals) =>
        TotalsFollowFormula(pricingTotals, pricingConfig)

\* x inflated by tax and then by markup
Inflated(x, config) ==
    RatMul(RatMul(x, RatAdd(RatInt(1), config.tax_rate)),
           RatAdd(RatInt(1), config.markup_rate))

\* the per-group and the per-person net sums of an itinerary
PerGroupNet(itinerary) ==
    SumSeq([k \in 1..Len(itinerary.days) |-> LinesContribution(itinerary.days[k].per_group)])

PerPersonNet(itinerary) ==
    SumSeq([k \in 1..Len(itinerary.days) |-> LinesContribution(itinerary.days[k].per_person)])

\* C12 as stated: sell_per_group equals sell_per_person x numPeople plus the
\* per-group net sum inflated by (1 + tax_rate) x (1 + markup_rate)
C12_AsStated ==
    (pc = "review" /\ pricingTotals # NoTotals) =>
        LET itinerary == analysisResult.parsedItinerary
        IN pricingTotals.sell_per_group =
              RatAdd(RatMul(pricingTotals.sell_per_person,
                            RatInt(itinerary.overview.num_people)),
                     Inflated(RatInt(PerGroupNet(itinerary)), pricingConfig))

\* C12, the value alone: sell_per_group is the whole net of the group
\* (numPeople times the per-person lines plus the per-group lines) inflated by
\* tax and markup, so per-group lines alone give the same sell_per_group for
\* every numPeople
C12_GroupTotalIsNetInflated ==
    (pc = "review" /\ pricingTotals # NoTotals) =>
        LET itinerary == analysisResult.parsedItinerary
        IN pricingTotals.sell_per_group =
              Inflated(RatInt(PerPersonNet(itinerary) * itinerary.overview.num_people
                                + PerGroupNet(itinerary)),
                       pricingConfig)

\* C13: aggregating an empty match list is not an error: for every numPeople
\* >= 1 compileAnalysis returns per-person and per-group totals 0, no
\* category breakdown and an empty per-day breakdown; for every num_people
\* >= 1 and every config calculatePricing on an itinerary without days
\* returns all five totals 0 and no daily totals
C13_EmptyListAllZero ==
    /\ (pc = "compiled" /\ matches = <<>>) =>
          /\ analysis # NoAnalysis
          /\ error = ""
          /\ analysis.pricing.per_person_total = 0
          /\ analysis.pricing.per_group_total = 0
          /\ analysis.pricing.breakdown_by_category = <<>>
          /\ analysis.services_by_day = <<>>
          /\ analysis.missing_prices = <<>>
          /\ analysis.summary.total_services = 0
          /\ analysis.summary.total_people = numPeople
    /\ (pc = "review" /\ analysisResult.parsedItinerary.days = <<>>) =>
          /\ pricingTotals # NoTotals
          /\ pricingTotals.net_per_person = RatInt(0)
          /\ pricingTotals.tax_amount = RatInt(0)
          /\ pricingTotals.markup_amount = RatInt(0)
          /\ pricingTotals.sell_per_person = RatInt(0)
          /\ pricingTotals.sell_per_group = RatInt(0)
          /\ pricingTotals.daily_totals = <<>>

\* an empty match list compiled for two or more people
C13_Witness ==
    /\ pc = "compiled"
    /\ matches = <<>>
    /\ numPeople >= 2
    /\ analysis.pricing.per_group_total = 0

(***************************************************************************)
(* Properties of the displayed amounts                                     *)
(***************************************************************************)
\* round(raw / increment) x increment
RoundedToIncrement(raw, increment) ==
    RatInt(MathRound(RatMul(raw, Rat(1, increment))) * increment)

\* NewTourPage shows the summary panel and the priced day cards
PricingStepShown ==
    /\ pc = "review"
    /\ currentStep = "pricing"
    /\ analysisResult # NoResult
    /\ pricingTotals # NoTotals

\* C14 as stated: every displayed total equals round(raw_total /
\* rounding_increment) x rounding_increment of the stored total, and for
\* rounding_increment = 1 the displayed value equals the raw value
C14_AsStated ==
    PricingStepShown =>
        LET inc == pricingConfig.rounding_increment
            panel == PricingSummaryPanel(pricingTotals, pricingConfig)
            days == analysisResult.parsedItinerary.days
        IN /\ panel.sell_per_person.amount =
                 RoundedToIncrement(pricingTotals.sell_per_person, inc)
           /\ panel.sell_per_group.amount =
                 RoundedToIncrement(pricingTotals.sell_per_group, inc)
           /\ inc = 1 => panel.sell_per_person.amount = pricingTotals.sell_per_person
           /\ \A k \in 1..Len(days) :
                 LET raw == dayTotalProp(pricingTotals, days[k])
                     card == DailyBreakdownCard(raw, pricingConfig.currency)
                 IN card.shown =>
                       /\ card.amount = RoundedToIncrement(raw, inc)
                       /\ inc = 1 => card.amount = raw

\* C14, the summary panel alone: each of its amounts is round(raw /
\* rounding_increment) x rounding_increment of the stored total
C14_PanelRoundsToIncrement ==
    PricingStepShown =>
        LET inc == pricingConfig.rounding_increment
            panel == PricingSummaryPanel(pricingTotals, pricingConfig)
        IN /\ panel.net_per_person.amount = RoundedToIncrement(pricingTotals.net_per_person, inc)
           /\ panel.tax_amount.amount = RoundedToIncrement(pricingTotals.tax_amount, inc)
           /\ panel.markup_amount.amount = RoundedToIncrement(pricingTotals.markup_amount, inc)
           /\ panel.sell_per_person.amount = RoundedToIncrement(pricingTotals.sell_per_person, inc)
           /\ panel.sell_per_group.amount = RoundedToIncrement(pricingTotals.sell_per_group, inc)
           /\ \A k \in 1..Len(pricingTotals.daily_totals) :
                 panel.daily_totals[k].sell_total.amount =
                     RoundedToIncrement(pricingTotals.daily_totals[k].sell_total, inc)

\* C14, the day card with rounding_increment 50: the card shows the day's
\* sell total to two decimals, not rounded to the increment
C14_CardIgnoresIncrement ==
    (PricingStepShown /\ pricingConfig.rounding_increment = 50) =>
        \A k \in 1..Len(analysisResult.parsedItinerary.days) :
            LET raw == dayTotalProp(pricingTotals, analysisResult.parsedItinerary.days[k])
                card == DailyBreakdownCard(raw, pricingConfig.currency)
            IN card.shown => card.amount = toFixed2(raw)

(***************************************************************************)
(* Properties of the analysis summary                                      *)
(***************************************************************************)
\* the sum a match list would give with its unmatched results removed
MatchedOnly(ms) == SelectSeq(ms, LAMBDA m : m.matched)

\* the number of entries of missing_prices that report service s
MissingCount(s) ==
    Cardinality({k \in 1..Len(analysis.missing_prices) :
                    /\ analysis.missing_prices[k].description = s.description
                    /\ analysis.missing_prices[k].category = s.category})

\* the number of unmatched results for service s
UnmatchedCount(s) ==
    Cardinality({i \in 1..Len(matches) : ~matches[i].matched /\ matches[i].service = s})

\* C15: only matched results with a resolved price enter the totals: the
\* totals are those of the matched results alone, each unmatched result adds
\* 0; every unmatched result appears exactly once in missing_prices, in
\* order; services_with_prices + services_without_prices = total_services
\* and the length of missing_prices equals services_without_prices
C15_UnmatchedOnlyInMissingPrices ==
    pc = "compiled" =>
        LET unmatched == SelectSeq(matches, LAMBDA m : ~m.matched)
            alone == compileAnalysis(MatchedOnly(matches), numPeople, TourDays)
        IN /\ analysis.pricing.per_person_total =
                 SumSeq([i \in 1..Len(matches) |-> Contribution(matches[i], {"per_person"})])
           /\ analysis.pricing.per_group_total =
                 SumSeq([i \in 1..Len(matches) |->
                            Contribution(matches[i], GroupBases)
                              + Contribution(matches[i], {"per_person"}) * numPeople])
           /\ analysis.pricing = alone.pricing
           /\ \A i \in 1..Len(matches) :
                 ~matches[i].matched =>
                    /\ Contribution(matches[i], CostBases) = 0
                    /\ MissingCount(matches[i].service) = UnmatchedCount(matches[i].service)
           /\ Len(analysis.missing_prices) = Len(unmatched)
           /\ \A k \in 1..Len(unmatched) :
                 /\ analysis.missing_prices[k].description = unmatched[k].service.description
                 /\ analysis.missing_prices[k].category = unmatched[k].service.category
                 /\ analysis.missing_prices[k].hint = unmatched[k].hint
           /\ analysis.summary.total_services = Len(matches)
           /\ analysis.summary.services_with_prices + analysis.summary.services_without_prices
                 = analysis.summary.total_services
           /\ Len(analysis.missing_prices) = analysis.summary.services_without_prices
           /\ analysis.summary.services_with_prices = Len(MatchedOnly(matches))

\* a matched and an unmatched service compiled together: the total is the
\* matched one's, the other is the one missing price
C15_Witness ==
    /\ pc = "compiled"
    /\ Len(matches) = 2
    /\ matches[1].matched
    /\ ~matches[2].matched
    /\ analysis.pricing.per_group_total > 0
    /\ Len(analysis.missing_prices) = 1
    /\ analysis.summary.services_with_prices = 1
    /\ analysis.summary.services_without_prices = 1

(***************************************************************************)
(* Properties of analyzeItinerary                                          *)
(***************************************************************************)
\* the completion carried a list of services
CarriedServices == completion.kind \in {"array", "services"}

\* C16 as stated: a service list containing a negative quantity makes the
\* call fail before anything is matched, and numPeople < 1 makes it fail
\* instead of returning totals; no result is produced in either case
C16_AsStated ==
    /\ (/\ pc \in {"analyzed", "failed"}
        /\ CarriedServices
        /\ \E i \in 1..Len(completion.services) : completion.services[i].quantity < 0) =>
          /\ pc = "failed"
          /\ error # ""
          /\ matches = <<>>
          /\ analysis = NoAnalysis
    /\ (pc \in {"analyzed", "failed"} /\ numPeople < 1) =>
          /\ pc = "failed"
          /\ error # ""
          /\ analysis = NoAnalysis

\* C16, what happens instead: a negative quantity is matched and priced like
\* any other, and its negative amount enters the totals
C16_NegativeQuantityIsPriced ==
    (/\ pc \in {"analyzed", "failed"}
     /\ completion = [kind |-> "array", services |-> <<CancelledPickup>>]
     /\ prices = <<CairoAirportPickup>>) =>
        /\ pc = "analyzed"
        /\ matches[1].matched
        /\ analysis.pricing.per_group_total = 0 - 20

\* C19: if the completion call fails, its content is not the expected shape,
\* or it carries zero services, analyzeItinerary throws and returns no
\* analysis; it returns an analysis only for a non-empty service list, with
\* one match per service
C19_ExtractorFailureRaises ==
    /\ (/\ pc \in {"analyzed", "failed"}
        /\ \/ ~CarriedServices
           \/ completion.services = <<>>) =>
          /\ pc = "failed"
          /\ Len(error) > Len("Failed to analyze itinerary: ")
          /\ SubSeq(error, 1, Len("Failed to analyze itinerary: "))
                = "Failed to analyze itinerary: "
          /\ services = <<>>
          /\ matches = <<>>
          /\ analysis = NoAnalysis
    /\ pc = "analyzed" =>
          /\ error = ""
          /\ services # <<>>
          /\ services = completion.services
          /\ Len(matches) = Len(services)
          /\ analysis # NoAnalysis
          /\ analysis.summary.total_services = Len(services)

\* the completion carried an empty services array and the call threw
C19_Witness ==
    /\ pc = "failed"
    /\ completion = [kind |-> "services", services |-> <<>>]
    /\ error = "Failed to analyze itinerary: No services detected in itinerary. Please provide a more detailed itinerary with specific services, locations, and activities."
    /\ analysis = NoAnalysis

(***************************************************************************)
(* Properties of the prices table                                          *)
(***************************************************************************)
\* the row with this id is returned by a getPrices call that has no
\* isActive filter or has isActive = true
Listed(table, id) ==
    \/ \E k \in 1..Len(getPricesNoFilter(table)) : getPricesNoFilter(table)[k].id = id
    \/ \E k \in 1..Len(getPrices(table, TRUE)) : getPrices(table, TRUE)[k].id = id

AllowedStatusMoves ==
    {<<"pending", "processing">>, <<"processing", "completed">>,
     <<"processing", "failed">>}

\* C18 as stated: the status of an upload only moves pending -> processing
\* -> completed or failed, and a request sets it to processing only when the
\* upload is pending at that time.
C18_AsStated ==
    [][/\ (csvUpload # NoUpload /\ csvUpload'.status # csvUpload.status) =>
             <<csvUpload.status, csvUpload'.status>> \in AllowedStatusMoves
       /\ \A r \in 1..Len(requests) :
             (StartProcessing(r) /\ requests'[r].at = "processing") =>
                csvUpload.status = "pending"
      ]_vars

\* C18, the part that holds: a request whose own read of the upload found a
\* status other than pending is answered 400 and writes nothing.
C18_NonPendingReadIsRejected ==
    [][\A r \in 1..Len(requests) :
          (/\ requests[r].at = "fetched"
           /\ requests[r].upload # NoUpload
           /\ requests[r].upload.status # "pending"
           /\ requests'[r] # requests[r]) =>
             /\ requests'[r].status = 400
             /\ requests'[r].at = "done"
             /\ csvUpload' = csvUpload
             /\ prices' = prices
      ]_vars

\* both requests read the upload while it was pending; the first completed
\* it, the second then set it back to processing and completed it again, and
\* the row of the file is in the prices table twice
C18_CompletedTwice ==
    /\ Len(requests) = 2
    /\ \A r \in 1..2 : requests[r].at = "done" /\ requests[r].status = 200
    /\ csvUpload.status = "completed"
    /\ csvUpload.file.records = <<RowAirportPickup>>
    /\ Len(prices) = 3
    /\ prices[2].unit_price = 20 /\ prices[2].currency = "EUR"
    /\ prices[3] = [prices[2] EXCEPT !.id = "c3"]

(***************************************************************************)
(* Properties of the AI matching step                                      *)
(***************************************************************************)
\* C20 as stated: matching has no side effects on its inputs.  The itinerary
\* handed to analyzeAndMatchServices and the prices table have, after the
\* call, exactly the field values they had before it.
C20_AsStated ==
    [][(pc = "parsed" /\ pc' = "priced") =>
          /\ parsedItinerary' = parsedItinerary
          /\ prices' = prices
      ]_vars

\* the services of an itinerary with their unitPrice blanked
withoutUnitPrice(itinerary) ==
    [d \in 1..Len(itinerary.days) |->
        [itinerary.days[d] EXCEPT
            !.per_group = [i \in 1..Len(itinerary.days[d].per_group) |->
                              [itinerary.days[d].per_group[i] EXCEPT !.unitPrice = Undefined]],
            !.per_person = [i \in 1..Len(itinerary.days[d].per_person) |->
                               [itinerary.days[d].per_person[i] EXCEPT !.unitPrice = Undefined]]]]

\* C20, the part that holds: analyzeAndMatchServices leaves the prices table
\* alone and writes no field of an input service other than unitPrice.
C20_OnlyUnitPriceWritten ==
    [][(pc = "parsed" /\ pc' = "priced") =>
          /\ prices' = prices
          /\ parsedItinerary'.overview = parsedItinerary.overview
          /\ withoutUnitPrice(parsedItinerary') = withoutUnitPrice(parsedItinerary)
      ]_vars

\* the input service "Airport transfer" came in without a unit price and
\* carries 20 after the call
C20_InputServicePriced ==
    /\ pc = "priced"
    /\ Len(parsedItinerary.days[1].per_group) = 1
    /\ parsedItinerary.days[1].per_group[1] = [TransferSedan EXCEPT !.unitPrice = Number(20)]
    /\ priceMatches[1].dbMatch = CairoAirportPickup
    /\ prices[1] = CairoAirportPickup

(***************************************************************************)
(* Properties of the reported currency                                     *)
(***************************************************************************)
\* the results of the analysis that are matched, in order
MatchedResults == SelectSeq(matches, LAMBDA m : m.matched)

\* C21 as stated: the currency reported with the totals is the currency of
\* the first matched result when there is one, and the currency of the
\* PricingConfig in force for the request when no result is matched.
C21_AsStated ==
    pc = "analyzed" =>
        analysis.pricing.currency =
            IF Len(MatchedResults) > 0 THEN MatchedResults[1].currency
            ELSE pricingConfig.currency

\* C21, what the code does: the currency of the first matched result when
\* there is one, and the literal "EUR" when no result is matched, whatever
\* the config.
C21_FirstMatchedElseEUR ==
    pc = "analyzed" =>
        analysis.pricing.currency =
            IF Len(MatchedResults) > 0 THEN MatchedResults[1].currency
            ELSE "EUR"

\* no result is matched, the page's config is in USD, the analysis says EUR
C21_UnmatchedUnderUSD ==
    /\ pc = "analyzed"
    /\ Len(MatchedResults) = 0
    /\ pricingConfig.currency = "USD"
    /\ analysis.pricing.currency = "EUR"

\* the first matched result is in USD and so is the analysis, the second
\* matched result being in EUR
C21_FirstOfMixedCurrencies ==
    /\ pc = "analyzed"
    /\ Len(MatchedResults) = 2
    /\ MatchedResults[1].currency = "USD"
    /\ MatchedResults[2].currency = "EUR"
    /\ analysis.pricing.currency = "USD"

(***************************************************************************)
(* Properties of the daily totals                                          *)
(***************************************************************************)
\* every day's sell_total is its net_total inflated by tax and then markup
\* (calculatePricing keeps whole net totals, calculateMockTotals fractions)
DaysInflated(totals, config) ==
    \A k \in 1..Len(totals.daily_totals) :
        totals.daily_totals[k].sell_total =
            Inflated(RatInt(totals.daily_totals[k].net_total), config)

MockDaysInflated(totals, config) ==
    \A k \in 1..Len(totals.daily_totals) :
        totals.daily_totals[k].sell_total =
            Inflated(totals.daily_totals[k].net_total, config)

\* C22 as stated: on both pages every day's sell_total is that day's
\* net_total x (1 + tax_rate) x (1 + markup_rate).
C22_AsStated ==
    /\ (pc = "review" /\ pricingTotals # NoTotals) =>
          DaysInflated(pricingTotals, pricingConfig)
    /\ (pc = "breakdown" /\ app.pricingTotals # NoTotals) =>
          MockDaysInflated(app.pricingTotals, app.pricingConfig)

\* C22, NewTourPage alone: calculatePricing returns one entry per day of the
\* itinerary, in order, whose net_total is the sum of that day's per-group
\* lines plus num_people times its per-person lines and whose sell_total is
\* that net inflated by tax and then markup.
C22_CalculatePricingDays ==
    (pc = "review" /\ pricingTotals # NoTotals) =>
        LET itinerary == analysisResult.parsedItinerary
        IN  /\ Len(pricingTotals.daily_totals) = Len(itinerary.days)
            /\ \A k \in 1..Len(itinerary.days) :
                  /\ pricingTotals.daily_totals[k].day = itinerary.days[k].day
                  /\ pricingTotals.daily_totals[k].net_total =
                        LinesContribution(itinerary.days[k].per_group)
                          + LinesContribution(itinerary.days[k].per_person)
                              * itinerary.overview.num_people
            /\ DaysInflated(pricingTotals, pricingConfig)

\* EgyptItineraryApp at tax 0.12 and markup 0.20: a day's sell_total is its
\* net_total x 1.32, where the compound formula gives net_total x 1.344
C22_MockDayAdditive ==
    /\ pc = "breakdown"
    /\ app.pricingTotals # NoTotals
    /\ app.pricingConfig.tax_rate = Rat(12, 100)
    /\ app.pricingConfig.markup_rate = Rat(20, 100)
    /\ app.pricingTotals.daily_totals[1].net_total # RatInt(0)
    /\ app.pricingTotals.daily_totals[1].sell_total =
          RatMul(app.pricingTotals.daily_totals[1].net_total, Rat(132, 100))

(***************************************************************************)
(* Properties of CSV processing                                            *)
(***************************************************************************)
\* the table before any processing
CatalogBefore == <<CairoAirportPickup>>

\* the rows of the prices table that came from the upload
InsertedRows == SubSeq(prices, Len(CatalogBefore) + 1, Len(prices))

\* the outcome of the loop over the records of the upload's file
FileOutcome ==
    IF csvUpload = NoUpload \/ csvUpload.file = Unreadable THEN NoOutcome
    ELSE processRecords(csvUpload.file.records, csvUpload, 1)

\* the requests that got past the status check
PastStatusCheck ==
    {r \in 1..Len(requests) :
        \/ requests[r].at \in {"processing", "insert", "complete", "catch"}
        \/ requests[r].at = "done" /\ requests[r].status \in {200, 500}}

\* C23 as stated: of the concurrent process requests for one pending upload
\* at most one gets past the status check, and the rows of the upload are in
\* the prices table at most once.
C23_AsStated ==
    /\ Cardinality(PastStatusCheck) <= 1
    /\ Len(InsertedRows) <= Len(FileOutcome.pricesToCreate)

\* both requests are past the status check and each has inserted the row of
\* the file
C23_InsertedTwice ==
    /\ Cardinality(PastStatusCheck) = 2
    /\ Len(FileOutcome.pricesToCreate) = 1
    /\ Len(InsertedRows) = 2
    /\ \A r \in 1..2 : requests[r].at = "complete"

\* C24 as stated: whenever the upload's status is failed, no price row of the
\* upload is in the prices table.
C24_AsStated ==
    (csvUpload # NoUpload /\ csvUpload.status = "failed") => InsertedRows = <<>>

\* C24, the part that holds: a single request that failed in readFile or in
\* bulkCreatePrices has inserted nothing.
C24_EarlyFailureInsertsNothing ==
    (/\ Len(requests) = 1
     /\ requests[1].at = "done"
     /\ requests[1].status = 500
     /\ requests[1].message # "update csv_uploads failed") =>
        /\ csvUpload.status = "failed"
        /\ InsertedRows = <<>>

\* one request alone: the bulk insert succeeded, the update to completed was
\* rejected, the catch block set the status to failed, and the row stays
C24_FailedAfterInsert ==
    /\ Len(requests) = 1
    /\ requests[1].at = "done"
    /\ requests[1].status = 500
    /\ csvUpload.status = "failed"
    /\ csvUpload.error_log = [kind |-> "text", value |-> "update csv_uploads failed"]
    /\ Len(InsertedRows) = 1
    /\ InsertedRows[1].service_name = "Airport Pickup"

\* the number of entries of an error log written by a completed processing
ErrorLogEntries(log) == IF log = Null THEN 0 ELSE Len(log.value)

\* the records of a file that pass csvRowSchema
ValidRecords(records) == SelectSeq(records, LAMBDA rec : csvRowIssues(rec) = <<>>)

\* C25 read over the whole table: when the upload's status is completed,
\* records_processed + records_failed is the number of records of the file,
\* exactly records_processed price rows of the upload are in the prices
\* table, and the error log has one entry per failed record.  It holds of an
\* upload processed by one request and fails when two requests both insert
\* (see C23).
C25_RowsOfUploadInTable ==
    (csvUpload # NoUpload /\ csvUpload.status = "completed") =>
        /\ csvUpload.records_processed + csvUpload.records_failed
              = Len(csvUpload.file.records)
        /\ Len(InsertedRows) = csvUpload.records_processed
        /\ ErrorLogEntries(csvUpload.error_log) = csvUpload.records_failed

RECURSIVE countedLines(_)
countedLines(lines) ==
    IF Len(lines) = 0 THEN <<>>
    ELSE (IF Head(lines).included /\ Head(lines).unitPrice # 0
          THEN <<Head(lines)>> ELSE <<>>) \o countedLines(Tail(lines))

\* the itinerary without its excluded and its unpriced services
WithoutUncounted(itinerary) ==
    [itinerary EXCEPT !.days =
        [k \in 1..Len(itinerary.days) |->
            [itinerary.days[k] EXCEPT !.per_group = countedLines(@),
                                      !.per_person = countedLines(@)]]]

\* C26: once an analysis has completed, whatever service edits and config
\* updates follow, the stored totals are calculatePricing of the current
\* itinerary and the current config, and they are the totals of the itinerary
\* with every excluded or unpriced service taken out
C26_TotalsFollowEdits ==
    (pc = "review" /\ analysisResult # NoResult) =>
        /\ pricingTotals = calculatePricing(analysisResult.parsedItinerary, pricingConfig)
        /\ pricingTotals =
              calculatePricing(WithoutUncounted(analysisResult.parsedItinerary),
                               pricingConfig)

\* an edited itinerary under an updated config: a service switched off, another
\* one saved with a new price and quantity
C26_EditedUnderNewConfig ==
    /\ pc = "review"
    /\ analysisResult # NoResult
    /\ pricingConfig # DefaultPricingConfig
    /\ LET days == analysisResult.parsedItinerary.days
       IN /\ Len(days) = 2
          /\ days[1].per_group = <<[PrivateCar EXCEPT !.included = FALSE]>>
          /\ days[2].per_person = <<[Lunch EXCEPT !.unitPrice = 40, !.quantity = 2]>>
    /\ pricingTotals.net_per_person = RatInt(80)

(***************************************************************************)
(* Properties of the daily totals against the group totals                 *)
(***************************************************************************)
DailySellSum(totals) ==
    RatSum([k \in 1..Len(totals.daily_totals) |-> totals.daily_totals[k].sell_total])

\* C27: the daily sell totals add up to sell_per_group and the daily net
\* totals add up to net_per_person x numPeople, in the totals of either page
C27_AsStated ==
    /\ (pc = "review" /\ pricingTotals # NoTotals) =>
          /\ DailySellSum(pricingTotals) = pricingTotals.sell_per_group
          /\ RatInt(SumSeq([k \in 1..Len(pricingTotals.daily_totals) |->
                               pricingTotals.daily_totals[k].net_total]))
                = RatMul(pricingTotals.net_per_person,
                         RatInt(analysisResult.parsedItinerary.overview.num_people))
    /\ (pc = "breakdown" /\ app.pricingTotals # NoTotals) =>
          /\ DailySellSum(app.pricingTotals) = app.pricingTotals.sell_per_group
          /\ RatSum([k \in 1..Len(app.pricingTotals.daily_totals) |->
                        app.pricingTotals.daily_totals[k].net_total])
                = RatMul(app.pricingTotals.net_per_person,
                         RatInt(app.parsedItinerary.overview.num_people))

\* the part of C27 that holds: the totals of NewTourPage.calculatePricing
C27_CalculatePricingAddsUp ==
    (pc = "review" /\ pricingTotals # NoTotals) =>
        /\ DailySellSum(pricingTotals) = pricingTotals.sell_per_group
        /\ RatInt(SumSeq([k \in 1..Len(pricingTotals.daily_totals) |->
                             pricingTotals.daily_totals[k].net_total]))
              = RatMul(pricingTotals.net_per_person,
                       RatInt(analysisResult.parsedItinerary.overview.num_people))

\* what calculateMockTotals returns instead: daily totals that add up to the
\* per-person figures
C27_MockDaysArePerPerson ==
    (pc = "breakdown" /\ app.pricingTotals # NoTotals) =>
        /\ DailySellSum(app.pricingTotals) = app.pricingTotals.sell_per_person
        /\ RatSum([k \in 1..Len(app.pricingTotals.daily_totals) |->
                      app.pricingTotals.daily_totals[k].net_total])
              = app.pricingTotals.net_per_person

(***************************************************************************)
(* Properties of the category breakdown                                    *)
(***************************************************************************)
BreakdownTotal(result) ==
    SumSeq([k \in 1..Len(result.pricing.breakdown_by_category) |->
               result.pricing.breakdown_by_category[k].total])

BreakdownCount(result) ==
    SumSeq([k \in 1..Len(result.pricing.breakdown_by_category) |->
               result.pricing.breakdown_by_category[k].count])

\* C28: the category totals add up to per_group_total and the category
\* counts add up to services_with_prices, for every match list and group size
C28_AsStated ==
    pc = "compiled" =>
        /\ BreakdownTotal(analysis) = analysis.pricing.per_group_total
        /\ BreakdownCount(analysis) = analysis.summary.services_with_prices

\* the part of C28 that holds: the category totals add up to per_group_total
C28_CategoryTotalsAddUp ==
    pc = "compiled" => BreakdownTotal(analysis) = analysis.pricing.per_group_total

\* what the counts add up to: the matched results whose price is not 0
C28_CountsSkipZeroPrice ==
    pc = "compiled" =>
        BreakdownCount(analysis)
           = Len(SelectSeq(matches, LAMBDA m : m.matched /\ m.price # 0))

(***************************************************************************)
(* Properties of the score of 'other' services and of services without a   *)
(* location                                                                *)
(***************************************************************************)
\* C29: against every active row, a service of category 'other' gets no
\* category points and scores at most 60, and a service without a location
\* scores at most 70; a matched 'other' service has its three search terms in
\* the row's text, the location points and the cost basis points
C29_OtherAndNoLocationBounds ==
    pc \in {"matched", "compiled"} =>
        LET allPrices == getPrices(prices, TRUE)
        IN \A k \in 1..Len(services) :
              LET service == services[k]
              IN /\ \A i \in 1..Len(allPrices) :
                       /\ service.category = "other" =>
                             /\ partsTable[service, allPrices[i]].category = 0
                             /\ scoreTable[service, allPrices[i]] <= 60
                       /\ service.location = "" =>
                             scoreTable[service, allPrices[i]] <= 70
                 /\ (service.category = "other" /\ matches[k].matched) =>
                       LET parts == partsTable[service, matches[k].database_match]
                       IN /\ Len(searchTerms(service)) = 3
                          /\ parts.found = 3
                          /\ parts.location = 20
                          /\ parts.basis = 10
                          /\ service.cost_basis = matches[k].database_match.cost_basis
                          /\ matches[k].confidence = 60

\* an 'other' service matched at 60, the same service left unmatched for its
\* cost basis and for its missing location, and a service without a location
\* matched at 70
C29_BoundsReached ==
    /\ pc = "matched"
    /\ prices = <<CamelRide, HotelLunch>>
    /\ \E a, b \in 1..Len(services) :
          /\ services[a] = CamelRideOpt
          /\ matches[a].matched
          /\ matches[a].confidence = 60
          /\ services[b] = LunchStop
          /\ matches[b].matched
          /\ matches[b].confidence = 70

\* the 'other' service that differs by its cost basis, or has no location, is
\* not matched by the row that matches CamelRideOpt
C29_OtherBelowThreshold ==
    /\ pc = "matched"
    /\ prices = <<CamelRide>>
    /\ services = <<CamelRidePerPerson, CamelRideNowhere>>
    /\ ~matches[1].matched
    /\ ~matches[2].matched
    /\ scoreTable[CamelRidePerPerson, CamelRide] = 50
    /\ scoreTable[CamelRideNowhere, CamelRide] = 30

(***************************************************************************)
(* Properties of the prices written back by the AI matching step           *)
(***************************************************************************)
\* the line carries the unit price of the match, or none when no price was found
CarriesPriceOf(line, match) ==
    IF match.priceFound
    THEN line.unitPrice = Number(match.dbMatch.unit_price)
    ELSE line.unitPrice = Undefined

\* the match analyzeAndMatchServices pushed for line i of a list of the one
\* day: the per_group services are collected first, then the per_person ones
OwnMatch(i, isPerGroup) ==
    IF isPerGroup THEN priceMatches[i]
    ELSE priceMatches[Len(parsedItinerary.days[1].per_group) + i]

\* C30: after analyzeAndMatchServices every service of the itinerary carries
\* the unit price of its own match, and none when its own match found no
\* price, services of the same name in the same list included
C30_AsStated ==
    pc = "priced" =>
        LET day == parsedItinerary.days[1]
        IN /\ \A i \in 1..Len(day.per_group) :
                 CarriesPriceOf(day.per_group[i], OwnMatch(i, TRUE))
           /\ \A i \in 1..Len(day.per_person) :
                 CarriesPriceOf(day.per_person[i], OwnMatch(i, FALSE))

\* the part of C30 that holds: a service carries the price of the first
\* match of its day, name and list, which is its own when no earlier service
\* of the list has its name
C30_FirstOfTheNameDecides ==
    pc = "priced" =>
        LET day == parsedItinerary.days[1]
            firstOf(lines, i) ==
                CHOOSE k \in 1..i :
                    /\ lines[k].service = lines[i].service
                    /\ \A j \in 1..(k - 1) : lines[j].service # lines[i].service
        IN /\ \A i \in 1..Len(day.per_group) :
                 CarriesPriceOf(day.per_group[i],
                                OwnMatch(firstOf(day.per_group, i), TRUE))
           /\ \A i \in 1..Len(day.per_person) :
                 CarriesPriceOf(day.per_person[i],
                                OwnMatch(firstOf(day.per_person, i), FALSE))

\* two "Airport transfer" services in per_group: the price found for the
\* sedan is written on the van, whose own match found no price
C30_VanTakesSedanPrice ==
    /\ pc = "priced"
    /\ Len(parsedItinerary.days[1].per_group) = 2
    /\ priceMatches[1].service.requirements = "Sedan"
    /\ priceMatches[1].priceFound
    /\ priceMatches[2].service.requirements = "Van"
    /\ ~priceMatches[2].priceFound
    /\ parsedItinerary.days[1].per_group[2].requirements = "Van"
    /\ parsedItinerary.days[1].per_group[2].unitPrice = Number(20)

====
